---- MODULE Spec2Model ----
(***************************************************************************)
(* Design validation loop of OpenForge.                                    *)
(*                                                                         *)
(* The state machine is main() of drone/scripts/prof_grade_test.py: the    *)
(* SOURCING -> PHYSICS_CHECK -> OPTIMIZE revision loop and the final asset *)
(* generation.  The pure services it calls (run_physics_simulation,        *)
(* validate_build) are operators computed as the code computes them.       *)
(*                                                                         *)
(* Conventions.  Python strings are TLA+ strings; Spell gives the          *)
(* characters of a string, so substring tests and regular expressions are  *)
(* computed on characters.  A Python dict is a function from keys to       *)
(* values.  None is the record NoneV.  A spec value is tagged: [int |-> n], *)
(* [float |-> thousandths] or [str |-> s].  Weights and thrusts are in     *)
(* milligrams, so that every quantity of the code (2.5 g, 26 g per Ah and  *)
(* cell) is an integer.                                                    *)
(***************************************************************************)
EXTENDS Integers, Sequences, FiniteSets, TLC

VARIABLES
    pc,                     \* the place main() has reached
    spec_sheet,             \* result of generate_spec_sheet
    current_shopping_list,  \* the items to source in this revision
    idx,                    \* position of the sourcing loop in the shopping list
    new_part_data,          \* the last result of fuse_component_data in main()
    current_bom,            \* the BOM, a list of parts
    revision_count,
    physics_report,         \* the last result of run_physics_simulation
    optimization_plan,      \* the last result of optimize_specs
    master_record,          \* the session: status, revisions, final_build
    cad_specs,              \* the CAD specs extracted from the final BOM
    assets,                 \* result of generate_assets
    now,                    \* the clock read by datetime.utcnow()
    fuse_pc,                \* the place fuse_component_data has reached
    fuse_part_type,         \* its part_type
    fuse_prompt,            \* its vision_prompt_object
    results,                \* the search results, one candidate task each
    candidates,             \* the result of each task, in the order of the tasks
    finished,               \* the tasks in the order they finished
    fuse_result,            \* what fuse_component_data returned
    compat_pc,              \* the place validate_build has reached
    compat_bom,             \* its bom
    compat_errors,          \* its list errors
    compat_warnings,        \* its list warnings
    reports,                \* what the calls of validate_build have returned
    phys_pc,                \* whether generate_physics_config has been called
    phys_bom,               \* its bom
    phys_config,            \* what it returned, or the exception
    store_pc,               \* the place the seeder has reached in save_to_arsenal
    arsenal_file,           \* the content of ARSENAL_FILE
    db,                     \* the db of save_to_arsenal
    new_item,               \* its new_item
    tags,                   \* its tags
    saved,                  \* the model names save_to_arsenal has saved
    eco_version,            \* which seed_ecosystem.py runs: of drone_3 or of drone_4
    eco_pc,                 \* the place seed_ecosystem has reached
    eco_runs,               \* how often seed_ecosystem has been started
    current_inventory,      \* its current_inventory
    eco_parts,              \* the parts its outer loop has still to visit
    needed_items,           \* the accessories its inner loop has still to visit
    existing_names,         \* its existing_names, each name by its characters
    new_finds,              \* its new_finds (drone_3)
    ref_version,            \* which refine_arsenal.py runs: of drone_3 or of drone_4
    ref_pc,                 \* the place run_refinery has reached
    ref_data,               \* the components of its data
    ref_i,                  \* the position of its loop, from 1
    components_to_remove,   \* its components_to_remove (drone_4), positions from 1
    seed_pc,                \* the place run_seeder has reached
    query_list,             \* the queries its loop has still to visit
    seed_result,            \* its result of fuse_component_data
    audit_file,             \* the content of AUDIT_LOG_FILE
    log_db,                 \* the log_db of log_audit_event
    logged,                 \* the events of the calls of log_audit_event that returned
    passed,                 \* what fusion answered to each query passed to it
    crashes,                \* how often the seeder has crashed
    fab_pc,                 \* the place fabricate_products has reached
    catalog_file,           \* the content of CATALOG_FILE
    sku_counter,            \* its sku_counter
    buckets,                \* how many parts each bucket of the size class holds
    fab_pos,                \* the frame, motor, prop, stack and bat of its loops
    fab_passed,             \* the frames of the designs passed to save_sku_to_catalog
    fab_saved,              \* the frames of the SKUs this run has catalogued
    fab_runs                \* how often fabricate_products has run

\* the variables of main()
main_vars == <<pc, spec_sheet, current_shopping_list, idx, new_part_data, current_bom,
               revision_count, physics_report, optimization_plan, master_record,
               cad_specs, assets, now>>

\* the variables of fuse_component_data
fusion_vars == <<fuse_pc, fuse_part_type, fuse_prompt, results, candidates, finished,
                 fuse_result>>

\* the variables of validate_build
compat_vars == <<compat_pc, compat_bom, compat_errors, compat_warnings, reports>>

\* the variables of one generate_physics_config caller (drone_2, drone_3)
physics_vars == <<phys_pc, phys_bom, phys_config>>

\* the variables of the seeder and its catalog file (drone_3/seed.py)
store_vars == <<store_pc, arsenal_file, db, new_item, tags, saved>>

\* the variables of save_to_arsenal without the catalog file
save_vars == <<store_pc, db, new_item, tags, saved>>

\* the variables of seed_ecosystem
eco_vars == <<eco_version, eco_pc, eco_runs, current_inventory, eco_parts, needed_items,
              existing_names, new_finds>>

\* the variables of run_refinery
ref_vars == <<ref_version, ref_pc, ref_data, ref_i, components_to_remove>>

\* the variables of run_seeder and of its audit log
seed_vars == <<seed_pc, query_list, seed_result, audit_file, log_db, logged, passed,
               crashes>>

\* the variables of fabricate_products
fab_vars == <<fab_pc, catalog_file, sku_counter, buckets, fab_pos, fab_passed, fab_saved,
              fab_runs>>

\* the variables of the tools that work on the catalog file
tool_vars == <<eco_vars, ref_vars, seed_vars, fab_vars>>

\* the variables of the services and tools when they run on their own
service_vars == <<fusion_vars, compat_vars, physics_vars, store_vars, tool_vars>>

vars == <<main_vars, service_vars>>

(***************************************************************************)
(* Bounds of the model.                                                    *)
(***************************************************************************)
\* longest replacement list the advisor returns
MaxReplacements == 2

(***************************************************************************)
(* Python values.                                                          *)
(***************************************************************************)
NoneV == [none |-> TRUE]

IsNone(v) == "none" \in DOMAIN v

\* dict.get(key, default)
Get(d, key, default) == IF key \in DOMAIN d THEN d[key] ELSE default

\* Python's  not d  for a dict or None
Falsy(d) == IsNone(d) \/ DOMAIN d = {}

\* truth value of a tagged spec value or None: None, 0 and "" are false
Truthy(v) ==
    IF IsNone(v) THEN FALSE
    ELSE IF "int" \in DOMAIN v THEN v.int # 0
    ELSE IF "float" \in DOMAIN v THEN v.float # 0
    ELSE v.str # ""

(***************************************************************************)
(* Characters of the strings the model uses.                               *)
(***************************************************************************)
Spell ==
    ( "" :> <<>> ) @@
    ( "Frame_Kit" :> <<"F","r","a","m","e","_","K","i","t">> ) @@
    ( "Motors" :> <<"M","o","t","o","r","s">> ) @@
    ( "Propellers" :> <<"P","r","o","p","e","l","l","e","r","s">> ) @@
    ( "FC_Stack" :> <<"F","C","_","S","t","a","c","k">> ) @@
    ( "Battery" :> <<"B","a","t","t","e","r","y">> ) @@
    ( "Camera_VTX_Kit" :> <<"C","a","m","e","r","a","_","V","T","X","_","K","i","t">> ) @@
    ( "Volador 5 inch" :> <<"V","o","l","a","d","o","r"," ","5"," ","i","n","c","h">> ) @@
    ( "Emax 2207 1700KV" :> <<"E","m","a","x"," ","2","2","0","7"," ","1","7","0","0","K","V">> ) @@
    ( "Xing 2306 2500KV" :> <<"X","i","n","g"," ","2","3","0","6"," ","2","5","0","0","K","V">> ) @@
    ( "Whoop 0802 19000KV" :> <<"W","h","o","o","p"," ","0","8","0","2"," ","1","9","0","0","0","K","V">> ) @@
    ( "HQ 5 inch prop" :> <<"H","Q"," ","5"," ","i","n","c","h"," ","p","r","o","p">> ) @@
    ( "HQ 7 inch prop" :> <<"H","Q"," ","7"," ","i","n","c","h"," ","p","r","o","p">> ) @@
    ( "F7 Stack" :> <<"F","7"," ","S","t","a","c","k">> ) @@
    ( "Tattu 1300mAh 6S" :> <<"T","a","t","t","u"," ","1","3","0","0","m","A","h"," ","6","S">> ) @@
    ( "DJI O3 Air Unit" :> <<"D","J","I"," ","O","3"," ","A","i","r"," ","U","n","i","t">> ) @@
    ( "ESC" :> <<"E","S","C">> ) @@
    ( "flight" :> <<"f","l","i","g","h","t">> ) @@
    ( "esc" :> <<"e","s","c">> ) @@
    ( "reddit.com" :> <<"r","e","d","d","i","t",".","c","o","m">> ) @@
    ( "facebook.com" :> <<"f","a","c","e","b","o","o","k",".","c","o","m">> ) @@
    ( "youtube.com" :> <<"y","o","u","t","u","b","e",".","c","o","m">> ) @@
    ( "twitter.com" :> <<"t","w","i","t","t","e","r",".","c","o","m">> ) @@
    ( "instagram.com" :> <<"i","n","s","t","a","g","r","a","m",".","c","o","m">> ) @@
    ( "forum" :> <<"f","o","r","u","m">> ) @@
    ( "pinterest" :> <<"p","i","n","t","e","r","e","s","t">> ) @@
    ( "thingiverse" :> <<"t","h","i","n","g","i","v","e","r","s","e">> ) @@
    ( "mdpi.com" :> <<"m","d","p","i",".","c","o","m">> ) @@
    ( "oscarliang.com" :> <<"o","s","c","a","r","l","i","a","n","g",".","c","o","m">> ) @@
    ( "getfpv.com/learn" :> <<"g","e","t","f","p","v",".","c","o","m","/","l","e","a","r","n">> ) @@
    ( "blog" :> <<"b","l","o","g">> ) @@
    ( "news" :> <<"n","e","w","s">> ) @@
    ( "collections" :> <<"c","o","l","l","e","c","t","i","o","n","s">> ) @@
    ( "products" :> <<"p","r","o","d","u","c","t","s">> ) @@
    ( "category" :> <<"c","a","t","e","g","o","r","y">> ) @@
    ( "browse" :> <<"b","r","o","w","s","e">> ) @@
    ( "shop" :> <<"s","h","o","p">> ) @@
    ( "rc model vehicles" :> <<"r","c"," ","m","o","d","e","l"," ","v","e","h","i","c","l","e","s">> ) @@
    ( "accessories" :> <<"a","c","c","e","s","s","o","r","i","e","s">> ) @@
    ( "parts" :> <<"p","a","r","t","s">> ) @@
    ( "rdq.com/p1" :> <<"r","d","q",".","c","o","m","/","p","1">> ) @@
    ( "rdq.com/p2" :> <<"r","d","q",".","c","o","m","/","p","2">> ) @@
    ( "rdq.com/p4" :> <<"r","d","q",".","c","o","m","/","p","4">> ) @@
    ( "rdq.com/p3" :> <<"r","d","q",".","c","o","m","/","p","3">> ) @@
    ( "reddit.com/r/fpv" :> <<"r","e","d","d","i","t",".","c","o","m","/","r","/","f","p","v">> ) @@
    ( "Velox V2 2207" :> <<"V","e","l","o","x"," ","V","2"," ","2","2","0","7">> ) @@
    ( "All Products" :> <<"A","l","l"," ","P","r","o","d","u","c","t","s">> ) @@
    ( "multimodal_fusion" :> <<"m","u","l","t","i","m","o","d","a","l","_","f","u","s","i","o","n">> ) @@
    ( "text_inference_fallback" :> <<"t","e","x","t","_","i","n","f","e","r","e","n","c","e","_","f","a","l","l","b","a","c","k">> ) @@
    ( "text_inference" :> <<"t","e","x","t","_","i","n","f","e","r","e","n","c","e">> ) @@
    ( "raw_search" :> <<"r","a","w","_","s","e","a","r","c","h">> ) @@
    ( "6S" :> <<"6","S">> ) @@
    ( "2500KV" :> <<"2","5","0","0","K","V">> ) @@
    ( "HV" :> <<"H","V">> ) @@
    ( "N/A" :> <<"N","/","A">> ) @@
    ( "GPS_Module" :> <<"G","P","S","_","M","o","d","u","l","e">> ) @@
    ( "M10 GPS" :> <<"M","1","0"," ","G","P","S">> ) @@
    ( "motors" :> <<"m","o","t","o","r","s">> ) @@
    ( "frame_kit" :> <<"f","r","a","m","e","_","k","i","t">> ) @@
    ( "fc_stack" :> <<"f","c","_","s","t","a","c","k">> ) @@
    ( "camera_vtx_kit" :> <<"c","a","m","e","r","a","_","v","t","x","_","k","i","t">> ) @@
    ( "propellers" :> <<"p","r","o","p","e","l","l","e","r","s">> ) @@
    ( "approx 35g" :> <<"a","p","p","r","o","x"," ","3","5","g">> ) @@
    ( "32.5 g" :> <<"3","2",".","5"," ","g">> ) @@
    ( "heavy" :> <<"h","e","a","v","y">> ) @@
    ( "1500mAh" :> <<"1","5","0","0","m","A","h">> ) @@
    ( "19000KV" :> <<"1","9","0","0","0","K","V">> ) @@
    ( "computer" :> <<"c","o","m","p","u","t","e","r">> ) @@
    ( "jetson" :> <<"j","e","t","s","o","n">> ) @@
    ( "raspberry" :> <<"r","a","s","p","b","e","r","r","y">> ) @@
    ( "sensor" :> <<"s","e","n","s","o","r">> ) @@
    ( "lidar" :> <<"l","i","d","a","r">> ) @@
    ( "depth" :> <<"d","e","p","t","h">> ) @@
    ( "gps" :> <<"g","p","s">> ) @@
    ( "XT60 Pigtail" :> <<"X","T","6","0"," ","P","i","g","t","a","i","l">> ) @@
    ( "Amass XT60 Pigtail" :> <<"A","m","a","s","s"," ","X","T","6","0"," ","P","i","g","t","a","i","l">> ) @@
    ( "JST-GH Cable" :> <<"J","S","T","-","G","H"," ","C","a","b","l","e">> ) @@
    ( "generic" :> <<"g","e","n","e","r","i","c">> ) @@
    ( "motor" :> <<"m","o","t","o","r">> ) @@
    ( "frame" :> <<"f","r","a","m","e">> ) @@
    ( "chassis" :> <<"c","h","a","s","s","i","s">> ) @@
    ( "fc" :> <<"f","c">> ) @@
    ( "stack" :> <<"s","t","a","c","k">> ) @@
    ( "controller" :> <<"c","o","n","t","r","o","l","l","e","r">> ) @@
    ( "battery" :> <<"b","a","t","t","e","r","y">> ) @@
    ( "lipo" :> <<"l","i","p","o">> ) @@
    ( "prop" :> <<"p","r","o","p">> ) @@
    ( "propeller" :> <<"p","r","o","p","e","l","l","e","r">> ) @@
    ( "camera" :> <<"c","a","m","e","r","a">> ) @@
    ( "video" :> <<"v","i","d","e","o">> ) @@
    ( "vtx" :> <<"v","t","x">> ) @@
    ( "2207" :> <<"2","2","0","7">> ) @@
    ( "2306" :> <<"2","3","0","6">> ) @@
    ( "1404" :> <<"1","4","0","4">> ) @@
    ( "5" :> <<"5">> ) @@
    ( "3" :> <<"3">> ) @@
    ( "freestyle" :> <<"f","r","e","e","s","t","y","l","e">> ) @@
    ( "volador" :> <<"v","o","l","a","d","o","r">> ) @@
    ( "air unit" :> <<"a","i","r"," ","u","n","i","t">> ) @@
    ( "o3" :> <<"o","3">> ) @@
    ( "kv" :> <<"k","v">> ) @@
    ( "mah" :> <<"m","a","h">> ) @@
    ( "s" :> <<"s">> ) @@
    ( "receiver" :> <<"r","e","c","e","i","v","e","r">> ) @@
    ( "digital" :> <<"d","i","g","i","t","a","l">> ) @@
    ( "vista" :> <<"v","i","s","t","a">> ) @@
    ( "walksnail" :> <<"w","a","l","k","s","n","a","i","l">> ) @@
    ( "elrs" :> <<"e","l","r","s">> ) @@
    ( "crsf" :> <<"c","r","s","f">> ) @@
    ( "crossfire" :> <<"c","r","o","s","s","f","i","r","e">> ) @@
    ( "7 inch" :> <<"7"," ","i","n","c","h">> ) @@
    ( "chimera7" :> <<"c","h","i","m","e","r","a","7">> ) @@
    ( "5 inch" :> <<"5"," ","i","n","c","h">> ) @@
    ( "5inch" :> <<"5","i","n","c","h">> )

LowerMap ==
    ("A" :> "a") @@ ("B" :> "b") @@ ("C" :> "c") @@ ("D" :> "d") @@
    ("E" :> "e") @@ ("F" :> "f") @@ ("G" :> "g") @@ ("H" :> "h") @@
    ("I" :> "i") @@ ("J" :> "j") @@ ("K" :> "k") @@ ("L" :> "l") @@
    ("M" :> "m") @@ ("N" :> "n") @@ ("O" :> "o") @@ ("P" :> "p") @@
    ("Q" :> "q") @@ ("R" :> "r") @@ ("S" :> "s") @@ ("T" :> "t") @@
    ("U" :> "u") @@ ("V" :> "v") @@ ("W" :> "w") @@ ("X" :> "x") @@
    ("Y" :> "y") @@ ("Z" :> "z")

\* str.lower() on characters
Lower(cs) ==
    [i \in 1..Len(cs) |-> IF cs[i] \in DOMAIN LowerMap THEN LowerMap[cs[i]] ELSE cs[i]]

\* Python's  sub in s  on characters
Contains(cs, sub) ==
    \E i \in 1..(Len(cs) - Len(sub) + 1) : SubSeq(cs, i, i + Len(sub) - 1) = sub

\* Python's  word in s  for a lower-cased string s given by its characters
Has(cs, word) == Contains(cs, Spell[word])

DigitVal ==
    ("0" :> 0) @@ ("1" :> 1) @@ ("2" :> 2) @@ ("3" :> 3) @@ ("4" :> 4) @@
    ("5" :> 5) @@ ("6" :> 6) @@ ("7" :> 7) @@ ("8" :> 8) @@ ("9" :> 9)

IsDigit(c) == c \in DOMAIN DigitVal

\* \s of the re module, for the characters the model uses
IsSpace(c) == c = " "

RECURSIVE int(_)
\* int() of a string of decimal digits
int(ds) ==
    IF ds = <<>> THEN 0
    ELSE int(SubSeq(ds, 1, Len(ds) - 1)) * 10 + DigitVal[ds[Len(ds)]]

\* cs[i..i+n-1] are n digits
DigitsAt(cs, i, n) ==
    /\ i + n - 1 <= Len(cs)
    /\ \A k \in i..(i + n - 1) : IsDigit(cs[k])

\* the literal suf starts at position j of cs
LiteralAt(cs, j, suf) ==
    /\ j + Len(suf) - 1 <= Len(cs)
    /\ SubSeq(cs, j, j + Len(suf) - 1) = suf

\* suf, after one optional \s when opt holds, matches at position j of cs
OptSpaceThen(cs, j, opt, suf) ==
    \/ (opt /\ j <= Len(cs) /\ IsSpace(cs[j]) /\ LiteralAt(cs, j + 1, suf))
    \/ LiteralAt(cs, j, suf)

\* the lengths n in lo..hi for which (\d{lo,hi})\s?suf matches at position i
MatchLens(cs, i, lo, hi, opt, suf) ==
    {n \in lo..hi : DigitsAt(cs, i, n) /\ OptSpaceThen(cs, i + n, opt, suf)}

\* re.search(r"(\d{lo,hi})\s?suf", s), or r"(\d{lo,hi})suf" when opt is false:
\* int(group(1)) of the leftmost match, the greedy (longest) digit run at that
\* position; -1 when there is no match
SearchNumber(cs, lo, hi, opt, suf) ==
    LET starts == {i \in 1..Len(cs) : MatchLens(cs, i, lo, hi, opt, suf) # {}}
    IN  IF starts = {} THEN -1
        ELSE LET i == CHOOSE a \in starts : \A b \in starts : a <= b
                 n == CHOOSE a \in MatchLens(cs, i, lo, hi, opt, suf) :
                          \A b \in MatchLens(cs, i, lo, hi, opt, suf) : a >= b
             IN  int(SubSeq(cs, i, i + n - 1))

(***************************************************************************)
(* Components.  fuse_component_data returns a composite part carrying the  *)
(* requested part_type, or None.  Catalog lists, per part type, the        *)
(* products the search can turn up.                                        *)
(***************************************************************************)
PartTypes == {"Frame_Kit", "Motors", "Propellers", "FC_Stack", "Battery", "Camera_VTX_Kit"}

\* the composite part built from the best candidate
composite_part(part_type, product_name, price, engineering_specs) ==
    [part_type |-> part_type, product_name |-> product_name, price |-> price,
     engineering_specs |-> engineering_specs]

Catalog ==
    ( "Frame_Kit" :> {
        composite_part("Frame_Kit", "Volador 5 inch", 60,
            ("wheelbase_mm" :> [int |-> 225])) } ) @@
    ( "Motors" :> {
        composite_part("Motors", "Emax 2207 1700KV", 20,
            ("kv_rating" :> [int |-> 1700]) @@ ("mounting_mm" :> [int |-> 16])),
        composite_part("Motors", "Xing 2306 2500KV", 22,
            ("kv" :> [int |-> 2500]) @@ ("mounting_mm" :> [int |-> 16])),
        composite_part("Motors", "Whoop 0802 19000KV", 9,
            ("kv_rating" :> [int |-> 19000]) @@ ("mounting_mm" :> [int |-> 7])) } ) @@
    ( "Propellers" :> {
        composite_part("Propellers", "HQ 5 inch prop", 4,
            ("diameter_mm" :> [int |-> 127])),
        composite_part("Propellers", "HQ 7 inch prop", 5,
            ("diameter_mm" :> [int |-> 178])) } ) @@
    ( "FC_Stack" :> {
        composite_part("FC_Stack", "F7 Stack", 80,
            ("mounting_mm" :> [int |-> 30]) @@ ("mcu" :> [str |-> "F7 Stack"])) } ) @@
    ( "Battery" :> {
        composite_part("Battery", "Tattu 1300mAh 6S", 35,
            ("cell_count_s" :> [int |-> 6]) @@ ("capacity_mah" :> [int |-> 1300])) } ) @@
    ( "Camera_VTX_Kit" :> {
        composite_part("Camera_VTX_Kit", "DJI O3 Air Unit", 230,
            ("width_mm" :> [int |-> 20])) } )

\* the outcomes of  await fuse_component_data(part_type, query)
fuse_component_data(part_type) == {NoneV} \cup Catalog[part_type]

(***************************************************************************)
(* Fusion: fuse_component_data of drone_3/app/services/fusion_service.py   *)
(* and the candidate tasks it gathers.  A search result carries, next to   *)
(* its link and title, what the web and the services answer for it: the    *)
(* outcome of scrape_product_page, the result of analyze_specs_multimodal  *)
(* and the results of the text inference on its title.  Prices are tagged  *)
(* values in thousandths, confidences are in hundredths.                   *)
(***************************************************************************)
DOMAIN_BLOCKLIST ==
    {"reddit.com", "facebook.com", "youtube.com", "twitter.com", "instagram.com",
     "forum", "pinterest", "thingiverse", "mdpi.com", "oscarliang.com",
     "getfpv.com/learn", "blog", "news"}

GENERIC_TITLE_BLOCKLIST ==
    {"collections", "products", "category", "browse", "shop", "rc model vehicles",
     "accessories", "parts"}

\* min_confidence: float = 0.6
MIN_CONFIDENCE == 60

\* an exception that leaves the coroutine
Raised == [raised |-> TRUE]

IsRaised(v) == "raised" \in DOMAIN v

\* isinstance(data, dict): neither None nor a number or string
IsDict(data) ==
    /\ ~IsNone(data)
    /\ DOMAIN data \cap {"int", "float", "str"} = {}

\* specs.get(key) as a truth value
Present(specs, key) == Truthy(Get(specs, key, NoneV))

\* validate_critical_specs(part_type, specs) without its check of the keys
validate_critical_specs_any(part_type, specs) == DOMAIN specs # {}

validate_critical_specs(part_type, specs) ==
    LET pt == Lower(Spell[part_type])
    IN  IF DOMAIN specs = {} THEN FALSE
        ELSE IF Has(pt, "motor") THEN
            /\ Present(specs, "kv_rating") \/ Present(specs, "kv")
            /\ Present(specs, "mounting_mm") \/ Present(specs, "stator_size")
        ELSE IF Has(pt, "frame") THEN
            Present(specs, "wheelbase_mm")
        ELSE IF Has(pt, "fc") \/ Has(pt, "flight") THEN
            /\ Present(specs, "mounting_mm") \/ Present(specs, "mounting_pattern_mm")
            /\ Present(specs, "mcu") \/ Present(specs, "mcu_type")
        ELSE IF Has(pt, "battery") THEN
            /\ Present(specs, "cell_count_s") \/ Present(specs, "voltage_v")
            /\ Present(specs, "capacity_mah")
        ELSE IF Has(pt, "esc") THEN
            Present(specs, "continuous_current_a") \/ Present(specs, "current_a")
        ELSE IF Has(pt, "prop") THEN
            Present(specs, "diameter_inch") \/ Present(specs, "diameter_mm")
        ELSE TRUE

\* final_price is usable: not "not final_price", a number, and above 0.50
price_ok(final_price) ==
    /\ Truthy(final_price)
    /\ DOMAIN final_price \cap {"int", "float"} # {}
    /\ (IF "int" \in DOMAIN final_price THEN final_price.int * 1000
        ELSE final_price.float) > 500

\* 2. the fields of the vision result whose value is given with enough confidence,
\*    marked with their source when there are any
vision_specs(raw_vision_result, min_confidence) ==
    IF Falsy(raw_vision_result) \/ Present(raw_vision_result, "error") THEN <<>>
    ELSE LET keys == {key \in DOMAIN raw_vision_result :
                        LET data == raw_vision_result[key]
                        IN  /\ IsDict(data)
                            /\ ~IsNone(Get(data, "value", NoneV))
                            /\ Get(data, "confidence", 0) >= min_confidence}
             validated_specs == [key \in keys |-> raw_vision_result[key].value]
         IN  IF keys = {} THEN validated_specs
             ELSE ("source" :> [str |-> "multimodal_fusion"]) @@ validated_specs

\* 3. the fallback: a value inferred from the title fills in key
text_fallback(specs, applies, key, inferred) ==
    IF applies /\ key \notin DOMAIN specs /\ Truthy(inferred)
    THEN (key :> inferred) @@ ("source" :> [str |-> "text_inference_fallback"]) @@ specs
    ELSE specs

\* the engineering_specs of a scraped candidate
engineering_specs_of(item, part_type, vision_prompt_object, min_confidence) ==
    LET pt == Lower(Spell[part_type])
        validated_specs ==
            IF Falsy(vision_prompt_object) THEN <<>>
            ELSE vision_specs(item.vision, min_confidence)
        with_mounting ==
            text_fallback(validated_specs, Has(pt, "motor"), "mounting_mm",
                          item.inferred_mounting)
    IN  text_fallback(with_mounting, Has(pt, "propeller"), "diameter_mm",
                      item.inferred_diameter)

\* the result of one candidate task: None, a candidate, or an exception.
\* scrape_product_page raises when new_page or the page set-up fails (they are
\* outside its try), returns None on an error inside its try, else the data.
process_single_candidate(item, part_type, vision_prompt_object, min_confidence) ==
    LET link  == Get(item, "link", "")
        title == Get(item, "title", "")
        scraped_data == item.page
        images == Get(scraped_data, "images", <<>>)
        text_tables == Get(scraped_data, "structured_tables", "")
        engineering_specs ==
            engineering_specs_of(item, part_type, vision_prompt_object, min_confidence)
    IN  IF link = "" \/ title = "" THEN NoneV
        ELSE IF \E bad_domain \in DOMAIN_BLOCKLIST : Has(Spell[link], bad_domain)
        THEN NoneV
        ELSE IF \E bad_word \in GENERIC_TITLE_BLOCKLIST :
                    Has(Lower(Spell[title]), bad_word)
        THEN NoneV
        ELSE IF IsRaised(scraped_data) THEN Raised
        ELSE IF Falsy(scraped_data) THEN NoneV
        ELSE IF ~price_ok(Get(scraped_data, "price", NoneV)) THEN NoneV
        ELSE IF ~validate_critical_specs(part_type, engineering_specs) THEN NoneV
        ELSE [product_name |-> title,
              price |-> scraped_data.price,
              source_url |-> link,
              image_url |-> IF images # <<>> THEN [str |-> images[1]] ELSE NoneV,
              engineering_data |-> engineering_specs,
              has_tables |-> text_tables # ""]

\* rank_candidate(c): the score of a surviving candidate
rank_candidate(c) ==
    LET specs  == c.engineering_data
        source == Get(specs, "source", [str |-> ""])
    IN  (IF source = [str |-> "multimodal_fusion"] THEN 20 ELSE 0)
      + (IF "str" \in DOMAIN source /\ Has(Spell[source.str], "text_inference")
         THEN 5 ELSE 0)
      + (IF c.has_tables THEN 10 ELSE 0)
      + (IF Truthy(c.image_url) THEN 5 ELSE 0)
      + Cardinality(DOMAIN specs)

\* a sort that puts a candidate before the earlier candidates of the same score
RECURSIVE sort_ties_reversed(_)

sort_ties_reversed(cs) ==
    IF cs = <<>> THEN <<>>
    ELSE LET done == sort_ties_reversed(SubSeq(cs, 1, Len(cs) - 1))
             c    == cs[Len(cs)]
             ahead == Cardinality({i \in 1..Len(done) :
                                     rank_candidate(done[i]) > rank_candidate(c)})
         IN  SubSeq(done, 1, ahead) \o <<c>> \o SubSeq(done, ahead + 1, Len(done))

\* list.sort(key=rank_candidate, reverse=True): descending and stable, candidates
\* of the same score keep the order they had
RECURSIVE sort_by_rank(_)

sort_by_rank(cs) ==
    IF cs = <<>> THEN <<>>
    ELSE LET done == sort_by_rank(SubSeq(cs, 1, Len(cs) - 1))
             c    == cs[Len(cs)]
             ahead == Cardinality({i \in 1..Len(done) :
                                     rank_candidate(done[i]) >= rank_candidate(c)})
         IN  SubSeq(done, 1, ahead) \o <<c>> \o SubSeq(done, ahead + 1, Len(done))

\* asyncio.gather(*tasks): the results in the order of the tasks, whatever the
\* order in which they finished
gather(slots, order) == slots

\* STEP 4 and before it the filter: None without a valid candidate, else the
\* composite part of the best candidate
rank_and_select(part_type, gathered) ==
    LET is_candidate(c) == ~IsNone(c)
        valid_candidates == SelectSeq(gathered, is_candidate)
    IN  IF valid_candidates = <<>> THEN NoneV
        ELSE LET best_candidate == sort_by_rank(valid_candidates)[1]
             IN  [part_type |-> part_type,
                  product_name |-> best_candidate.product_name,
                  price |-> best_candidate.price,
                  source_url |-> best_candidate.source_url,
                  engineering_specs |-> best_candidate.engineering_data,
                  reference_image |-> best_candidate.image_url,
                  data_source_method |->
                      Get(best_candidate.engineering_data, "source",
                          [str |-> "raw_search"]),
                  alternatives_checked |-> Len(valid_candidates)]

(***************************************************************************)
(* What a search can turn up.                                              *)
(***************************************************************************)
\* most search results find_components returns (search_limit is 5 in the code)
MaxResults == 3

FusionPartTypes ==
    {"Motors", "Frame_Kit", "FC_Stack", "Battery", "ESC", "Propellers", "Camera_VTX_Kit"}

\* a field of a vision result, given with high and with low confidence
sure(v) == [value |-> v, confidence |-> 90]

unsure(v) == [value |-> v, confidence |-> 50]

\* a vision result with every critical key of the part type
VisionFull ==
    ( "Motors" :> ( ("kv_rating" :> sure([int |-> 1700]))
                    @@ ("mounting_mm" :> sure([int |-> 16])) ) ) @@
    ( "Frame_Kit" :> ("wheelbase_mm" :> sure([int |-> 225])) ) @@
    ( "FC_Stack" :> ( ("mounting_mm" :> sure([float |-> 30500]))
                      @@ ("mcu" :> sure([str |-> "F722"])) ) ) @@
    ( "Battery" :> ( ("cell_count_s" :> sure([int |-> 6]))
                     @@ ("capacity_mah" :> sure([int |-> 1300])) ) ) @@
    ( "ESC" :> ("continuous_current_a" :> sure([int |-> 45])) ) @@
    ( "Propellers" :> ("diameter_inch" :> sure([int |-> 5])) ) @@
    ( "Camera_VTX_Kit" :> ("width_mm" :> sure([int |-> 20])) )

\* the key of VisionFull that the partial result gives with low confidence
UnsureKey ==
    ( "Motors" :> "mounting_mm" ) @@ ( "Frame_Kit" :> "wheelbase_mm" ) @@
    ( "FC_Stack" :> "mcu" ) @@ ( "Battery" :> "capacity_mah" ) @@
    ( "ESC" :> "continuous_current_a" ) @@ ( "Propellers" :> "diameter_inch" ) @@
    ( "Camera_VTX_Kit" :> "width_mm" )

\* a vision result that is sure of the weight only, not of one critical key, and
\* that holds an entry that is no dict
VisionPartial(part_type) ==
    LET key == UnsureKey[part_type]
    IN  (key :> unsure(VisionFull[part_type][key].value))
        @@ ("weight_g" :> sure([int |-> 30]))
        @@ ("note" :> [str |-> "n"])
        @@ VisionFull[part_type]

\* a scraped page with a price, a spec table and an image
GoodPage ==
    [price |-> [float |-> 19990], images |-> <<"img_1", "img_2">>,
     structured_tables |-> "KV : 1700", text |-> "text", title |-> "t",
     image_url |-> "img_1"]

GoodLink == <<"rdq.com/p1", "rdq.com/p2", "rdq.com/p3", "rdq.com/p4">>

CandidateKinds ==
    {"blocked", "generic", "untitled", "scrape_error", "scrape_raises", "cheap",
     "full", "plain", "partial", "inferred"}

\* the i-th search result, of the given kind
search_result(i, kind, part_type) ==
    LET page ==
            CASE kind = "scrape_error"  -> NoneV
              [] kind = "scrape_raises" -> Raised
              [] kind = "cheap"  -> [GoodPage EXCEPT !.price = [float |-> 500]]
              [] kind = "plain"  -> [GoodPage EXCEPT !.images = <<>>,
                                                     !.structured_tables = "",
                                                     !.image_url = ""]
              [] OTHER -> GoodPage
        world ==
            [page |-> page,
             vision |-> IF kind \in {"partial", "inferred"}
                        THEN VisionPartial(part_type) ELSE VisionFull[part_type],
             inferred_mounting |-> IF kind = "inferred" THEN [int |-> 16] ELSE NoneV,
             inferred_diameter |-> IF kind = "inferred" THEN [int |-> 127] ELSE NoneV]
        link  == IF kind = "blocked" THEN "reddit.com/r/fpv" ELSE GoodLink[i]
        title == IF kind = "generic" THEN "All Products" ELSE "Velox V2 2207"
    IN  IF kind = "untitled" THEN ("link" :> link) @@ world
        ELSE ("link" :> link) @@ ("title" :> title) @@ world

\* the lists find_components can return
ResultLists(part_type) ==
    UNION { { [i \in 1..n |-> search_result(i, kinds[i], part_type)] :
                kinds \in [1..n -> CandidateKinds] } : n \in 0..MaxResults }

\* what generate_vision_prompt can return
VisionPrompts == {NoneV, [prompt_text |-> "p"]}

(***************************************************************************)
(* run_physics_simulation.  Weights and thrusts in milligrams.             *)
(***************************************************************************)
\* the accumulators before the loop over the BOM
physics_start ==
    [total_weight |-> 0, max_thrust |-> 0, battery_cap |-> 0, motor_kv |-> 0,
     voltage |-> 0, prop_diam |-> 0]

\* one pass of the loop over the BOM: the branch taken for one item
physics_item(acc, item) ==
    LET pt   == Lower(Spell[Get(item, "part_type", "")])
        name == Lower(Spell[Get(item, "product_name", "")])
    IN
    IF Has(pt, "motor") THEN
        LET weight_per_motor == IF Has(name, "2207") \/ Has(name, "2306") THEN 35000
                                ELSE IF Has(name, "1404") THEN 10000
                                ELSE 2500
            thrust_per_motor == IF Has(name, "2207") \/ Has(name, "2306") THEN 1200000
                                ELSE IF Has(name, "1404") THEN 300000
                                ELSE 40000
            kv == SearchNumber(name, 3, 5, TRUE, Spell["kv"])
        IN  [acc EXCEPT
               !.total_weight = @ + weight_per_motor * 4,
               !.motor_kv = IF kv >= 0 THEN kv ELSE @,
               !.max_thrust = IF kv >= 0
                              THEN (IF kv > 10000 THEN 40000
                                    ELSE IF kv > 2000 THEN 600000
                                    ELSE 1300000)
                              ELSE thrust_per_motor]
    ELSE IF Has(pt, "frame") \/ Has(pt, "chassis") THEN
        [acc EXCEPT !.total_weight =
            @ + (IF Has(name, "5") \/ Has(name, "freestyle") \/ Has(name, "volador")
                 THEN 120000
                 ELSE IF Has(name, "3") THEN 40000
                 ELSE 10000)]
    ELSE IF Has(pt, "fc") \/ Has(pt, "stack") \/ Has(pt, "controller") THEN
        [acc EXCEPT !.total_weight = @ + (IF Has(pt, "stack") THEN 15000 ELSE 5000)]
    ELSE IF Has(pt, "battery") \/ Has(pt, "lipo") THEN
        LET cap   == SearchNumber(name, 3, 4, TRUE, Spell["mah"])
            bcap  == IF cap >= 0 THEN cap ELSE acc.battery_cap
            cells == SearchNumber(name, 1, 1, FALSE, Spell["s"])
        IN  IF cells >= 0 THEN
                \* weight_est = (battery_cap / 1000) * cells * 26  grams
                LET weight_est == bcap * cells * 26
                IN  [acc EXCEPT
                       !.battery_cap = bcap,
                       !.voltage = cells * 37,
                       !.total_weight = @ + (IF weight_est > 0 THEN weight_est
                                             ELSE cells * 10000)]
            ELSE [acc EXCEPT !.battery_cap = bcap, !.total_weight = @ + 50000]
    ELSE IF Has(pt, "prop") THEN
        LET specs == Get(item, "engineering_specs", <<>>)
            d     == Get(specs, "diameter_mm", NoneV)
        IN  [acc EXCEPT
               \* diameter_mm / 25.4, in thousandths of an inch
               !.prop_diam = IF Truthy(d) THEN (d.int * 10000) \div 254 ELSE @,
               !.total_weight = @ + 10000]
    ELSE IF Has(pt, "camera") \/ Has(pt, "video") \/ Has(pt, "vtx") THEN
        [acc EXCEPT !.total_weight =
            @ + (IF Has(name, "air unit") \/ Has(name, "o3") THEN 35000 ELSE 5000)]
    ELSE acc

RECURSIVE physics_loop(_, _)
\* for item in bom_data
physics_loop(acc, bom) ==
    IF bom = <<>> THEN acc
    ELSE physics_loop(physics_item(acc, Head(bom)), Tail(bom))

\* the input handed to the simulation script
sim_input(bom_data) ==
    LET acc == physics_loop(physics_start, bom_data)
    IN  [total_weight_g |-> IF acc.total_weight < 5000 THEN 50000 ELSE acc.total_weight,
         max_thrust_g |-> acc.max_thrust,
         num_motors |-> 4,
         battery_capacity_mah |-> acc.battery_cap,
         motor_kv |-> acc.motor_kv,
         voltage |-> acc.voltage,
         prop_diameter_inch |-> acc.prop_diam,
         prop_pitch_inch |-> 3000]

\* simulation/calc_twr.py: thrust-to-weight ratio (in hundredths) and hover
\* throttle (in percent) of the input
calc_twr(inp) ==
    LET twr == (inp.num_motors * inp.max_thrust_g * 100) \div inp.total_weight_g
    IN  [twr |-> twr,
         hover_throttle_percent |-> IF twr > 0 THEN 10000 \div twr ELSE 50]

\* the reports run_physics_simulation can return for a BOM: the script's
\* output, or an error value when the BOM is empty or the script fails
run_physics_simulation(bom_data) ==
    IF bom_data = <<>> THEN {[error |-> "BOM is empty"]}
    ELSE {calc_twr(sim_input(bom_data)), [error |-> "Simulation script error"]}

(***************************************************************************)
(* CompatibilityService.validate_build.                                    *)
(***************************************************************************)
RECURSIVE replace(_, _)
\* str.replace(sub, ""), for a non-empty sub
replace(cs, sub) ==
    IF cs = <<>> THEN <<>>
    ELSE IF LiteralAt(cs, 1, sub) THEN replace(SubSeq(cs, Len(sub) + 1, Len(cs)), sub)
    ELSE <<Head(cs)>> \o replace(Tail(cs), sub)

\* float() of a string: digits with an optional fraction of up to three digits,
\* in thousandths; [err |-> TRUE] is the ValueError
float_of_chars(cs) ==
    LET dots == {i \in 1..Len(cs) : cs[i] = "."}
        whole == IF dots = {} THEN cs
                 ELSE SubSeq(cs, 1, (CHOOSE i \in dots : TRUE) - 1)
        frac  == IF dots = {} THEN <<>>
                 ELSE SubSeq(cs, (CHOOSE i \in dots : TRUE) + 1, Len(cs))
        pad   == frac \o SubSeq(<<"0", "0", "0">>, 1, 3 - Len(frac))
    IN  IF /\ Cardinality(dots) <= 1
           /\ Len(whole) + Len(frac) > 0
           /\ Len(frac) <= 3
           /\ \A i \in 1..Len(whole) : IsDigit(whole[i])
           /\ \A i \in 1..Len(frac) : IsDigit(frac[i])
        THEN [val |-> int(whole) * 1000 + int(pad)]
        ELSE [err |-> TRUE]

\* float(str(v).lower().replace(sub, "")) of a spec value, in thousandths
float_without(v, sub) ==
    IF "int" \in DOMAIN v THEN [val |-> v.int * 1000]
    ELSE IF "float" \in DOMAIN v THEN [val |-> v.float]
    ELSE IF "str" \in DOMAIN v THEN float_of_chars(replace(Lower(Spell[v.str]), Spell[sub]))
    ELSE [err |-> TRUE]    \* float("none")

\* float(v) of a spec value, in thousandths
float_of(v) ==
    IF "int" \in DOMAIN v THEN [val |-> v.int * 1000]
    ELSE IF "float" \in DOMAIN v THEN [val |-> v.float]
    ELSE IF "str" \in DOMAIN v THEN float_of_chars(Spell[v.str])
    ELSE [err |-> TRUE]    \* TypeError

\* parts = {p['part_type']: p for p in bom}: the last part of each type
parts_by_type(bom) ==
    [t \in {bom[i].part_type : i \in 1..Len(bom)} |->
        bom[CHOOSE i \in 1..Len(bom) :
               /\ bom[i].part_type = t
               /\ \A j \in 1..Len(bom) : bom[j].part_type = t => j <= i]]

\* get_spec(part, key, default) of validate_build
get_spec(part, key, default) ==
    IF Falsy(part) THEN default
    ELSE Get(Get(part, "engineering_specs", <<>>), key, default)

\* engineering_specs is there and None: part.get('engineering_specs', {}) gives
\* None, and .get or  in  on it raises
specs_broken(part) ==
    /\ ~IsNone(part)
    /\ "engineering_specs" \in DOMAIN part
    /\ IsNone(part.engineering_specs)

\* a or b
Or(a, b) == IF Truthy(a) THEN a ELSE b

\* a CHECK A that takes a battery for 6S only above 6 cells
check_voltage_above_6(parts) ==
    LET battery == Get(parts, "Battery", NoneV)
        motor   == Get(parts, "Motors", NoneV)
        cells_f == float_without(get_spec(battery, "cell_count_s", [int |-> 0]), "s")
        kv_f    == float_without(Or(get_spec(motor, "kv_rating", NoneV),
                                    get_spec(motor, "kv", [int |-> 0])), "kv")
        \* the bare except: get_spec or float() has raised
        failed  == \/ specs_broken(battery) \/ specs_broken(motor)
                   \/ "err" \in DOMAIN cells_f \/ "err" \in DOMAIN kv_f
        cells   == IF failed THEN 0 ELSE cells_f.val
        kv      == IF failed THEN 0 ELSE kv_f.val
    IN  IF Falsy(battery) \/ Falsy(motor) \/ ~(cells > 0 /\ kv > 0)
        THEN [errors |-> <<>>, warnings |-> <<>>]
        ELSE IF cells > 6000 /\ kv > 2150000
        THEN [errors |-> <<[kind |-> "Voltage Mismatch", kv |-> kv \div 1000]>>,
              warnings |-> <<>>]
        ELSE IF cells <= 4000 /\ kv < 2000000
        THEN [errors |-> <<>>,
              warnings |-> <<[kind |-> "Performance Warning", kv |-> kv \div 1000]>>]
        ELSE [errors |-> <<>>, warnings |-> <<>>]

\* CHECK A: VOLTAGE MATCHING
check_voltage(parts) ==
    LET battery == Get(parts, "Battery", NoneV)
        motor   == Get(parts, "Motors", NoneV)
        cells_f == float_without(get_spec(battery, "cell_count_s", [int |-> 0]), "s")
        kv_f    == float_without(Or(get_spec(motor, "kv_rating", NoneV),
                                    get_spec(motor, "kv", [int |-> 0])), "kv")
        \* the bare except: get_spec or float() has raised
        failed  == \/ specs_broken(battery) \/ specs_broken(motor)
                   \/ "err" \in DOMAIN cells_f \/ "err" \in DOMAIN kv_f
        cells   == IF failed THEN 0 ELSE cells_f.val
        kv      == IF failed THEN 0 ELSE kv_f.val
    IN  IF Falsy(battery) \/ Falsy(motor) \/ ~(cells > 0 /\ kv > 0)
        THEN [errors |-> <<>>, warnings |-> <<>>]
        ELSE IF cells >= 6000 /\ kv > 2150000
        THEN [errors |-> <<[kind |-> "Voltage Mismatch", kv |-> kv \div 1000]>>,
              warnings |-> <<>>]
        ELSE IF cells <= 4000 /\ kv < 2000000
        THEN [errors |-> <<>>,
              warnings |-> <<[kind |-> "Performance Warning", kv |-> kv \div 1000]>>]
        ELSE [errors |-> <<>>, warnings |-> <<>>]

\* int(v) of a spec value; 3, the default, when int() raises
uart_count_of(v) ==
    IF "int" \in DOMAIN v THEN v.int
    ELSE IF "float" \in DOMAIN v THEN v.float \div 1000
    ELSE IF "str" \in DOMAIN v /\ Spell[v.str] # <<>>
            /\ \A i \in 1..Len(Spell[v.str]) : IsDigit(Spell[v.str][i])
    THEN int(Spell[v.str])
    ELSE 3

\* CHECK B: ELECTRONIC I/O
check_io(bom, parts) ==
    LET fc  == Get(parts, "FC_Stack", NoneV)
        vtx == Get(parts, "Camera_VTX_Kit", NoneV)
        gps == Get(parts, "GPS_Module", NoneV)
        rxs == {i \in 1..Len(bom) : Has(Lower(Spell[Get(bom[i], "part_type", "")]), "receiver")}
        rx  == IF rxs = {} THEN NoneV
               ELSE bom[CHOOSE i \in rxs : \A j \in rxs : i <= j]
        fc_specs   == Get(fc, "engineering_specs", <<>>)
        uart_count == IF "uart_count" \in DOMAIN fc_specs
                      THEN uart_count_of(fc_specs["uart_count"]) ELSE 3
        vtx_name == Lower(Spell[Get(vtx, "product_name", "")])
        rx_name  == Lower(Spell[Get(rx, "product_name", "")])
        used_vtx == IF ~Falsy(vtx) /\ \E x \in {"digital", "o3", "vista", "walksnail"} :
                                         Has(vtx_name, x)
                    THEN 1 ELSE 0
        used_rx  == IF ~Falsy(rx) /\ (Has(rx_name, "elrs") \/ Has(rx_name, "crsf")
                                       \/ Has(rx_name, "crossfire"))
                    THEN 1 ELSE 0
        used_gps == IF ~Falsy(gps) THEN 1 ELSE 0
        used_uarts == used_vtx + used_rx + used_gps
    IN  IF ~Falsy(fc) /\ used_uarts > uart_count
        THEN [errors |-> <<[kind |-> "I/O Bottleneck", uart_count |-> uart_count,
                            used_uarts |-> used_uarts]>>,
              warnings |-> <<>>]
        ELSE [errors |-> <<>>, warnings |-> <<>>]

\* CHECK C: PHYSICAL CLEARANCE.  The propeller size is the fraction n/d of
\* thousandths of an inch: the spec value itself, or diameter_mm / 25.4
check_clearance(parts) ==
    LET frame == Get(parts, "Frame_Kit", NoneV)
        props == Get(parts, "Propellers", NoneV)
        declared == get_spec(frame, "max_prop_size_inch", NoneV)
        name == Lower(Spell[Get(frame, "product_name", "")])
        frame_max == IF Truthy(declared) THEN float_of(declared)
                     ELSE IF "product_name" \notin DOMAIN frame THEN [err |-> TRUE]
                     ELSE IF Has(name, "7 inch") \/ Has(name, "chimera7") THEN [val |-> 7500]
                     ELSE IF Has(name, "5 inch") \/ Has(name, "5inch") THEN [val |-> 5200]
                     ELSE [val |-> 99000]
        inches == Or(get_spec(props, "diameter_inches", NoneV),
                     get_spec(props, "diameter_inch", NoneV))
        mm     == get_spec(props, "diameter_mm", NoneV)
        prop_n == IF Truthy(inches) THEN float_of(inches)
                  ELSE IF Truthy(mm) THEN float_of(mm)
                  ELSE [none |-> TRUE]
        prop_d == IF Truthy(inches) THEN 10 ELSE 254
        \* float(prop_size) > float(frame_max), and both are truthy
        clash  == /\ ~specs_broken(frame) /\ ~specs_broken(props)
                  /\ "val" \in DOMAIN frame_max /\ "val" \in DOMAIN prop_n
                  /\ frame_max.val # 0 /\ prop_n.val # 0
                  /\ prop_n.val * 10 > frame_max.val * prop_d
    IN  IF ~Falsy(frame) /\ ~Falsy(props) /\ clash
        THEN [errors |-> <<[kind |-> "Geometry Clash", frame_max |-> frame_max.val]>>,
              warnings |-> <<>>]
        ELSE [errors |-> <<>>, warnings |-> <<>>]

\* parts = {p['part_type']: p for p in bom}  raises KeyError
key_error(bom) == \E i \in 1..Len(bom) : "part_type" \notin DOMAIN bom[i]

\* "uart_count" in fc.get('engineering_specs', {})  raises TypeError: CHECK B
\* has no try around it
io_raises(parts) == specs_broken(Get(parts, "FC_Stack", NoneV))

\* validate_build(bom): the report of the three checks, or the exception
validate_build(bom) ==
    IF key_error(bom) THEN Raised
    ELSE LET parts == parts_by_type(bom)
             a == check_voltage(parts)
             b == check_io(bom, parts)
             c == check_clearance(parts)
             errors == a.errors \o b.errors \o c.errors
         IN  IF io_raises(parts) THEN Raised
             ELSE [valid |-> Len(errors) = 0,
                   errors |-> errors,
                   warnings |-> a.warnings \o b.warnings \o c.warnings]

(***************************************************************************)
(* The collaborators' answers: spec sheets and optimization plans.         *)
(***************************************************************************)
\* an entry of the spec sheet's buy_list
buy_item(t) == [part_type |-> t, search_query |-> "q"]

\* an entry of the optimization plan's replacements
replacement(t) == [part_type |-> t, new_search_query |-> "q2", reason |-> "r"]

BuyLists ==
    { <<>>,
      <<buy_item("Frame_Kit"), buy_item("Motors"), buy_item("Propellers"),
        buy_item("Battery")>>,
      <<buy_item("Motors"), buy_item("Battery"), buy_item("Motors")>>,
      <<buy_item("FC_Stack"), buy_item("Camera_VTX_Kit")>> }

\* what generate_spec_sheet can return: nothing, an empty object, a sheet
\* without a buy_list, a sheet with a buy_list
SpecSheets ==
    {NoneV, <<>>, [engineering_notes |-> "n"]}
    \cup {[buy_list |-> l, engineering_notes |-> "n"] : l \in BuyLists}

ReplaceableTypes == {"Motors", "Battery"}

ReplacementLists ==
    UNION {[1..n -> {replacement(t) : t \in ReplaceableTypes}] : n \in 1..MaxReplacements}

\* what optimize_specs can return: nothing, an empty object, a plan without
\* replacements, a plan with an empty list, a plan with replacements, and a plan
\* whose replacement lacks its part_type
OptimizationPlans ==
    {NoneV, <<>>, [diagnosis |-> "d", strategy |-> "s"],
     [diagnosis |-> "d", strategy |-> "s", replacements |-> <<>>],
     [diagnosis |-> "d", strategy |-> "s",
      replacements |-> <<[new_search_query |-> "q2", reason |-> "r"]>>]}
    \cup {[diagnosis |-> "d", strategy |-> "s", replacements |-> l] : l \in ReplacementLists}

(***************************************************************************)
(* fuse_component_data as a process: the prompt, the search, the candidate *)
(* tasks finishing in any order, the ranking.                              *)
(***************************************************************************)
\* a task that has not finished
Pending == [pending |-> TRUE]

\* main() is not running
main_off ==
    /\ pc = "off"
    /\ spec_sheet = NoneV
    /\ current_shopping_list = <<>>
    /\ idx = 0
    /\ new_part_data = NoneV
    /\ current_bom = <<>>
    /\ revision_count = 0
    /\ physics_report = NoneV
    /\ optimization_plan = NoneV
    /\ master_record = NoneV
    /\ cad_specs = <<>>
    /\ assets = NoneV
    /\ now = 0

\* fuse_component_data has the given place and nothing else yet
fusion_at(place) ==
    /\ fuse_pc = place
    /\ fuse_part_type = ""
    /\ fuse_prompt = NoneV
    /\ results = <<>>
    /\ candidates = <<>>
    /\ finished = <<>>
    /\ fuse_result = NoneV

\* validate_build has the given place and nothing else yet
compat_at(place) ==
    /\ compat_pc = place
    /\ compat_bom = <<>>
    /\ compat_errors = <<>>
    /\ compat_warnings = <<>>
    /\ reports = <<>>

\* the seeder has the given place, and there is no catalog file yet
store_at(place) ==
    /\ store_pc = place
    /\ arsenal_file = NoneV
    /\ db = NoneV
    /\ new_item = NoneV
    /\ tags = {}
    /\ saved = {}

\* save_to_arsenal has the given place and nothing else yet
save_at(place) ==
    /\ store_pc = place
    /\ db = NoneV
    /\ new_item = NoneV
    /\ tags = {}
    /\ saved = {}

\* seed_ecosystem has the given place and nothing else yet
eco_at(place) ==
    /\ eco_pc = place
    /\ eco_runs = 0
    /\ current_inventory = <<>>
    /\ eco_parts = <<>>
    /\ needed_items = <<>>
    /\ existing_names = {}
    /\ new_finds = <<>>

\* run_refinery has the given place and nothing else yet
ref_at(place) ==
    /\ ref_pc = place
    /\ ref_data = <<>>
    /\ ref_i = 1
    /\ components_to_remove = {}

\* seed_ecosystem does not run
eco_off == eco_version = "none" /\ eco_at("off")

\* run_refinery does not run
ref_off == ref_version = "none" /\ ref_at("off")

\* run_seeder has the given place, and there is no audit log yet
seed_at(place) ==
    /\ seed_pc = place
    /\ query_list = <<>>
    /\ seed_result = NoneV
    /\ audit_file = NoneV
    /\ log_db = NoneV
    /\ logged = <<>>
    /\ passed = <<>>
    /\ crashes = 0

\* fabricate_products has the given place, and there is no product catalog yet
fab_at(place) ==
    /\ fab_pc = place
    /\ catalog_file = NoneV
    /\ sku_counter = 0
    /\ buckets = NoneV
    /\ fab_pos = NoneV
    /\ fab_passed = {}
    /\ fab_saved = <<>>
    /\ fab_runs = 0

\* no tool of the catalog file runs
tools_off == eco_off /\ ref_off /\ seed_at("off") /\ fab_at("off")

\* generate_physics_config has the given place and nothing else yet
physics_at(place) ==
    /\ phys_pc = place
    /\ phys_bom = <<>>
    /\ phys_config = NoneV

FusionInit ==
    main_off /\ fusion_at("start") /\ compat_at("off") /\ physics_at("off") /\ store_at("off") /\ tools_off

\* STEP 1: generate_vision_prompt; without a prompt the call returns None
FuseCall ==
    /\ fuse_pc = "start"
    /\ \E part_type \in FusionPartTypes, prompt \in VisionPrompts :
        /\ fuse_part_type' = part_type
        /\ fuse_prompt' = prompt
        /\ fuse_pc' = IF Falsy(prompt) THEN "returned" ELSE "search"
    /\ UNCHANGED <<results, candidates, finished, fuse_result, main_vars, compat_vars, physics_vars, store_vars, tool_vars>>

\* STEP 2: find_components; without results the call returns None, else one
\* task per result is started
FindComponents ==
    /\ fuse_pc = "search"
    /\ \E found \in ResultLists(fuse_part_type) :
        /\ results' = found
        /\ candidates' = [i \in 1..Len(found) |-> Pending]
        /\ fuse_pc' = IF found = <<>> THEN "returned" ELSE "tasks"
    /\ UNCHANGED <<fuse_part_type, fuse_prompt, finished, fuse_result, main_vars, compat_vars, physics_vars, store_vars, tool_vars>>

\* STEP 3: task i finishes.  An exception of a task leaves gather at once, and
\* with it fuse_component_data: gather is called without return_exceptions
TaskFinish(i) ==
    /\ fuse_pc = "tasks"
    /\ candidates[i] = Pending
    /\ LET outcome == process_single_candidate(results[i], fuse_part_type,
                                               fuse_prompt, MIN_CONFIDENCE)
       IN  /\ candidates' = [candidates EXCEPT ![i] = outcome]
           /\ fuse_pc' = IF IsRaised(outcome) THEN "raised" ELSE "tasks"
    /\ finished' = Append(finished, i)
    /\ UNCHANGED <<fuse_part_type, fuse_prompt, results, fuse_result, main_vars, compat_vars, physics_vars, store_vars, tool_vars>>

\* every task has finished: the candidates are gathered, ranked, and the best
\* one is returned
RankSelect ==
    /\ fuse_pc = "tasks"
    /\ \A i \in 1..Len(candidates) : candidates[i] # Pending
    /\ fuse_result' = rank_and_select(fuse_part_type, gather(candidates, finished))
    /\ fuse_pc' = "returned"
    /\ UNCHANGED <<fuse_part_type, fuse_prompt, results, candidates, finished,
                   main_vars, compat_vars, physics_vars, store_vars, tool_vars>>

FusionNext ==
    \/ FuseCall
    \/ FindComponents
    \/ \E i \in 1..MaxResults : i <= Len(candidates) /\ TaskFinish(i)
    \/ RankSelect

FusionSpec == FusionInit /\ [][FusionNext]_vars

(***************************************************************************)
(* generate_physics_config of drone_2/app/services/physics_service.py.     *)
(* Grams, millimetres and mAh are in thousandths, the TWR and the hover    *)
(* throttle in hundredths, the flight time in tenths of a minute; a        *)
(* quotient of two weights is taken of their tenths of a gram and rounded  *)
(* to the nearest unit.  The fields of the config that only convert units  *)
(* are left out.                                                           *)
(***************************************************************************)
\* math.pi * (d/2)**2 * h * 1.5 is d * d * h times this, in ten-thousandths
STATOR_THRUST_FACTOR == 11781

\* FALLBACK_WEIGHTS, in the order of the dict
FALLBACK_WEIGHTS ==
    << [k |-> "motors", v |-> 35000], [k |-> "frame_kit", v |-> 120000],
       [k |-> "fc_stack", v |-> 25000], [k |-> "camera_vtx_kit", v |-> 45000],
       [k |-> "battery", v |-> 220000], [k |-> "propellers", v |-> 5000] >>

\* a / b rounded to the nearest integer, for a >= 0 and b > 0
RoundDiv(a, b) == (2 * a + b) \div (2 * b)

\* the least element of a set of integers that is not empty
Least(S) == CHOOSE a \in S : \A b \in S : a <= b

\* the length of the digit run that starts at position i of cs
DigitRun(cs, i) ==
    LET ends == {n \in 0..(Len(cs) - i + 1) : \A k \in i..(i + n - 1) : IsDigit(cs[k])}
    IN  CHOOSE n \in ends : \A m \in ends : m <= n

\* the length of the digits of (\.\d+)? at position j of cs, 0 without a match
FracLen(cs, j) ==
    IF j < Len(cs) /\ cs[j] = "." THEN DigitRun(cs, j + 1) ELSE 0

\* the first three digits of a fraction, filled up with zeros
Thousandths(frac) == int(SubSeq(frac \o <<"0", "0", "0">>, 1, 3))

\* float() of the digits cs[i..j-1] and the fraction that follows them
FloatAt(cs, i, j) ==
    int(SubSeq(cs, i, j - 1)) * 1000 + Thousandths(SubSeq(cs, j + 1, j + FracLen(cs, j)))

\* the positions of the digits of cs
DigitStarts(cs) == {i \in 1..Len(cs) : IsDigit(cs[i])}

\* re.search(r"(\d+(\.\d+)?)", s): float(group(1)) of the leftmost match, the
\* default without one
SearchFloat(cs, default) ==
    IF DigitStarts(cs) = {} THEN default
    ELSE FloatAt(cs, Least(DigitStarts(cs)),
                 Least(DigitStarts(cs)) + DigitRun(cs, Least(DigitStarts(cs))))

\* _extract_number(text, default): a number as it is, the default for None and
\* "", else the number found in the string
extract_number(text, default) ==
    IF IsNone(text) THEN default
    ELSE IF "int" \in DOMAIN text THEN text.int * 1000
    ELSE IF "float" \in DOMAIN text THEN text.float
    ELSE SearchFloat(Spell[text.str], default)

\* item.get('specs', {}) is None: the .get on it raises AttributeError
specs_null(item) == "specs" \in DOMAIN item /\ IsNone(item.specs)

\* the first FALLBACK_WEIGHTS entry whose key is in cat, 0 without one
fallback_weight(cat) ==
    LET hits == {n \in 1..Len(FALLBACK_WEIGHTS) : Has(cat, FALLBACK_WEIGHTS[n].k)}
    IN  IF hits = {} THEN 0 ELSE FALLBACK_WEIGHTS[Least(hits)].v

\* the weight of an item of category cat times its quantity
weight_times_qty(cat, weight) ==
    (IF weight = 0 THEN fallback_weight(cat) ELSE weight)
        * (IF Has(cat, "motor") \/ Has(cat, "propeller") THEN 4 ELSE 1)

\* one round of the loop of _calculate_auw
item_weight(item) ==
    weight_times_qty(Lower(Spell[Get(item, "category", "")]),
                     extract_number(Get(Get(item, "specs", <<>>), "weight_g", NoneV), 0))

RECURSIVE total_weight(_)

\* the sum of the loop of _calculate_auw
total_weight(bom) ==
    IF bom = <<>> THEN 0 ELSE item_weight(Head(bom)) + total_weight(Tail(bom))

\* _calculate_auw(bom): the sum with 10% overhead, or the exception
calculate_auw(bom) ==
    IF \E i \in 1..Len(bom) : specs_null(bom[i]) THEN Raised
    ELSE [val |-> (total_weight(bom) * 11) \div 10]

\* stator_vol * 1.5 for a stator of diameter d and height h, 1000 g without
stator_thrust(d, h) ==
    IF d * d * h > 0 THEN (d * d * h * STATOR_THRUST_FACTOR) \div 10 ELSE 1000000

\* the estimate from the four digits found in the model name, -1 for none
estimated_thrust(stator) ==
    IF stator < 0 THEN 1000000 ELSE stator_thrust(stator \div 100, stator % 100)

\* the adjustment for KV, and the floor of 500 g
adjust_for_kv(estimated, kv) ==
    IF kv > 2000000 THEN (estimated * 9) \div 10
    ELSE IF kv < 1500000 THEN (estimated * 13) \div 10
    ELSE estimated

\* max(500, x)
at_least_500(x) == IF x < 500000 THEN 500000 ELSE x

\* _estimate_max_thrust(motor_item, prop_item)
estimate_max_thrust(motor_item) ==
    IF DOMAIN motor_item = {} THEN 1000000
    ELSE at_least_500(adjust_for_kv(
             estimated_thrust(SearchNumber(Spell[Get(motor_item, "model_name", "")],
                                           4, 4, FALSE, <<>>)),
             extract_number(Get(Get(motor_item, "specs", <<>>), "kv", [int |-> 1700]),
                            0)))

\* next((i for i in bom if i['category'] == category), {}): the first item of
\* the category, {} without one, or KeyError when an item without category
\* comes before it
first_of(bom, category) ==
    LET found == {i \in 1..Len(bom) : Get(bom[i], "category", "") = category}
        upto  == IF found = {} THEN Len(bom) ELSE Least(found)
    IN  IF \E i \in 1..upto : "category" \notin DOMAIN bom[i] THEN Raised
        ELSE IF found = {} THEN <<>> ELSE bom[upto]

\* hours * 60 * 0.8 for a capacity and a weight, in tenths of a minute
flight_minutes(mah, mass_g) ==
    IF mass_g <= 0 THEN 0 ELSE RoundDiv((mah \div 1000) * 192, mass_g \div 100)

\* _calculate_flight_time(battery_item, total_weight_g)
calculate_flight_time(battery_item, mass_g) ==
    flight_minutes(extract_number(Get(Get(battery_item, "specs", <<>>), "capacity_mah",
                                      NoneV), 1300000),
                   mass_g)

\* the config for a weight and a thrust per motor
config_of(frame, battery, mass_g, max_thrust_g_per_motor) ==
    [total_weight_g |-> mass_g,
     max_thrust_g_per_motor |-> max_thrust_g_per_motor,
     twr |-> IF mass_g > 0
             THEN RoundDiv(((max_thrust_g_per_motor * 4) \div 100) * 100, mass_g \div 100)
             ELSE 0,
     hover_throttle |->
         IF mass_g > 0
         THEN RoundDiv((mass_g \div 100) * 100, (max_thrust_g_per_motor * 4) \div 100)
         ELSE 50,
     wheelbase_mm |->
         extract_number(Get(Get(frame, "specs", <<>>), "wheelbase_mm", NoneV), 225000),
     est_flight_time_min |-> calculate_flight_time(battery, mass_g)]

\* generate_physics_config once the parts are identified and the weight known
config_of_parts(frame, motors, props, battery, mass) ==
    IF \E part \in {frame, motors, props, battery} : IsRaised(part) THEN Raised
    ELSE IF IsRaised(mass) THEN Raised
    ELSE config_of(frame, battery, mass.val, estimate_max_thrust(motors))

\* generate_physics_config(bom): the config, or the exception
generate_physics_config(bom) ==
    config_of_parts(first_of(bom, "Frame_Kit"), first_of(bom, "Motors"),
                    first_of(bom, "Propellers"), first_of(bom, "Battery"),
                    calculate_auw(bom))

(***************************************************************************)
(* A caller of generate_physics_config: the BOMs it hands over are lists   *)
(* of catalog items as design_fleet rehydrates them, complete or not.      *)
(***************************************************************************)
MaxBomLen == 2

\* items of a BOM: with and without category, with specs, without, with None
PhysicsItems ==
    { [category |-> "Frame_Kit", model_name |-> "Volador 5 inch",
       specs |-> [wheelbase_mm |-> [int |-> 250], weight_g |-> [str |-> "approx 35g"]]],
      [category |-> "Frame_Kit", model_name |-> "Volador 5 inch"],
      [category |-> "Motors", model_name |-> "Emax 2207 1700KV",
       specs |-> [kv |-> [int |-> 1700], weight_g |-> [str |-> "32.5 g"]]],
      [category |-> "Motors", model_name |-> "Whoop 0802 19000KV",
       specs |-> [kv |-> [str |-> "19000KV"], weight_g |-> [str |-> "heavy"]]],
      [category |-> "Motors", model_name |-> "Xing 2306 2500KV", specs |-> NoneV],
      [category |-> "Propellers", model_name |-> "HQ 5 inch prop", specs |-> <<>>],
      [category |-> "Battery", model_name |-> "Tattu 1300mAh 6S",
       specs |-> [capacity_mah |-> [str |-> "1500mAh"], weight_g |-> [float |-> 210500]]],
      [category |-> "Battery", model_name |-> "Tattu 1300mAh 6S", specs |-> NoneV],
      [category |-> "FC_Stack", model_name |-> "F7 Stack", specs |-> <<>>],
      [category |-> "Camera_VTX_Kit", model_name |-> "DJI O3 Air Unit"],
      [model_name |-> "F7 Stack", specs |-> <<>>],
      [model_name |-> "Emax 2207 1700KV", specs |-> NoneV] }

RECURSIVE ListsUpTo(_, _)

\* the lists of at most n elements of S
ListsUpTo(S, n) ==
    IF n = 0 THEN {<<>>}
    ELSE LET shorter == ListsUpTo(S, n - 1)
         IN  shorter \cup {Append(l, x) : l \in shorter, x \in S}

PhysicsBoms == ListsUpTo(PhysicsItems, MaxBomLen)

PhysicsInit ==
    main_off /\ fusion_at("off") /\ compat_at("off") /\ physics_at("idle") /\ store_at("off") /\ tools_off

\* one call of generate_physics_config(bom)
GeneratePhysicsConfig ==
    /\ phys_pc \in {"idle", "returned", "raised"}
    /\ \E bom \in PhysicsBoms :
          /\ phys_bom' = bom
          /\ phys_config' = generate_physics_config(bom)
          /\ phys_pc' = IF IsRaised(phys_config') THEN "raised" ELSE "returned"
    /\ UNCHANGED <<main_vars, fusion_vars, compat_vars, store_vars, tool_vars>>

PhysicsNext == GeneratePhysicsConfig

PhysicsSpec == PhysicsInit /\ [][PhysicsNext]_vars

(***************************************************************************)
(* The catalog file of drone_3/seed.py.  The file is absent (None), holds  *)
(* a JSON document, or is torn: opened for writing, and so truncated, but  *)
(* not written to the end.  The tags of an entry are a set: the code makes *)
(* them a list in no particular order.  The fields of an entry that are    *)
(* copied from the item and never read again are left out.                 *)
(***************************************************************************)
Torn == [torn |-> TRUE]

\* load_json(ARSENAL_FILE): the document, or the default when the file is
\* absent or json.load raises
load_json(file) ==
    IF IsNone(file) \/ file = Torn THEN [components |-> <<>>] ELSE file

\* the Auto-Tagging of save_to_arsenal
auto_tags(cat, name) ==
    (IF Has(cat, "computer") \/ Has(name, "jetson") \/ Has(name, "raspberry")
     THEN {"AI_CAPABLE"} ELSE {})
    \cup (IF Has(cat, "sensor") \/ Has(name, "lidar") \/ Has(name, "depth")
          THEN {"OBSTACLE_AVOIDANCE"} ELSE {})
    \cup (IF Has(cat, "gps") THEN {"AUTONOMOUS_NAVIGATION"} ELSE {})

\* the tags after the Auto-Tagging
all_tags(item, item_tags) ==
    item_tags \cup auto_tags(Lower(Spell[item.part_type]), Lower(Spell[item.product_name]))

\* the component has the model name
is_known(existing, product_name) ==
    "model_name" \in DOMAIN existing /\ existing.model_name = product_name

\* the position of the first component with the model name, 0 without one
known_item(components, product_name) ==
    IF \A i \in 1..Len(components) : ~is_known(components[i], product_name) THEN 0
    ELSE Least({i \in 1..Len(components) : is_known(components[i], product_name)})

\* existing['model_name'] raises KeyError: the Duplicate Check comes to a
\* component without model_name before it finds the item
check_raises(components, product_name) ==
    \E i \in 1..Len(components) :
        /\ "model_name" \notin DOMAIN components[i]
        /\ \A j \in 1..(i - 1) : ~is_known(components[j], product_name)

\* the Known Item branch: the tags are added, the specs replaced
update_existing(existing, item, item_tags) ==
    [existing EXCEPT !.tags = @ \cup item_tags,
                     !.specs = IF item.engineering_specs # <<>>
                               THEN item.engineering_specs ELSE @]

\* the entry of a new item
new_entry(item, item_tags, item_type) ==
    [type |-> item_type, category |-> item.part_type, model_name |-> item.product_name,
     price_est |-> item.price, specs |-> item.engineering_specs, verified |-> TRUE,
     tags |-> item_tags]

\* the components with the item at position i updated, or appended for i = 0
put_item(components, i, item, item_tags, item_type) ==
    IF i > 0 THEN [components EXCEPT ![i] = update_existing(@, item, item_tags)]
    ELSE Append(components, new_entry(item, item_tags, item_type))

\* the db of save_to_arsenal when it opens the file for writing
db_to_write(loaded, item, item_tags, item_type) ==
    [loaded EXCEPT !.components =
        put_item(@, known_item(@, item.product_name), item, item_tags, item_type)]

\* item_type of run_seeder
item_type_of(category) ==
    IF category = "Complete_Drone" THEN "complete_drone" ELSE "component"

\* results of fuse_component_data that run_seeder saves: specs and price found
StoreItems ==
    { [part_type |-> "Motors", product_name |-> "Emax 2207 1700KV", price |-> 24990,
       engineering_specs |-> [kv_rating |-> 1700]],
      [part_type |-> "Motors", product_name |-> "Emax 2207 1700KV", price |-> 24990,
       engineering_specs |-> [kv_rating |-> 1750]],
      [part_type |-> "Battery", product_name |-> "Tattu 1300mAh 6S", price |-> 32000,
       engineering_specs |-> [capacity_mah |-> 1300]],
      [part_type |-> "GPS_Module", product_name |-> "M10 GPS", price |-> 18500,
       engineering_specs |-> [weight_g |-> 12]] }

\* tags=[m_name, class] of run_seeder
TagChoices == { {"Fence Patrol", "Heavy_Lift"}, {"Night Watch", "Heavy_Lift"} }

StoreInit ==
    main_off /\ fusion_at("off") /\ compat_at("off") /\ physics_at("off")
        /\ store_at("idle") /\ tools_off

\* save_to_arsenal up to the open: load_json, Auto-Tagging, Duplicate Check
SaveToArsenal ==
    /\ store_pc = "idle"
    /\ \E item \in StoreItems, item_tags \in TagChoices :
          /\ new_item' = item
          /\ tags' = all_tags(item, item_tags)
          /\ IF check_raises(load_json(arsenal_file).components, item.product_name)
             THEN /\ db' = load_json(arsenal_file)
                  /\ store_pc' = "raised"
             ELSE /\ db' = db_to_write(load_json(arsenal_file), item, tags',
                                       item_type_of(item.part_type))
                  /\ store_pc' = "open"
    /\ UNCHANGED <<arsenal_file, saved, main_vars, fusion_vars, compat_vars, physics_vars, tool_vars>>

\* open(ARSENAL_FILE, "w"): the file is truncated
OpenForWrite ==
    /\ store_pc = "open"
    /\ arsenal_file' = Torn
    /\ store_pc' = "dump"
    /\ UNCHANGED <<db, new_item, tags, saved, main_vars, fusion_vars, compat_vars,
                   physics_vars, tool_vars>>

\* json.dump(db, f) and the close of the file: the item is saved
Dump ==
    /\ store_pc = "dump"
    /\ arsenal_file' = db
    /\ saved' = saved \cup {new_item.product_name}
    /\ db' = NoneV
    /\ new_item' = NoneV
    /\ tags' = {}
    /\ store_pc' = "idle"
    /\ UNCHANGED <<main_vars, fusion_vars, compat_vars, physics_vars, tool_vars>>

\* the process dies: what it held in memory is gone, the file stays as it is
Crash ==
    /\ store_pc \in {"idle", "open", "dump"}
    /\ store_pc' = "crashed"
    /\ db' = NoneV
    /\ new_item' = NoneV
    /\ tags' = {}
    /\ UNCHANGED <<arsenal_file, saved, main_vars, fusion_vars, compat_vars, physics_vars, tool_vars>>

\* the seeder is run again
Restart ==
    /\ store_pc = "crashed"
    /\ store_pc' = "idle"
    /\ UNCHANGED <<arsenal_file, db, new_item, tags, saved, main_vars, fusion_vars,
                   compat_vars, physics_vars, tool_vars>>

StoreNext ==
    \/ SaveToArsenal
    \/ OpenForWrite
    \/ Dump
    \/ Crash
    \/ Restart

StoreSpec == StoreInit /\ [][StoreNext]_vars

(***************************************************************************)
(* seed_ecosystem of drone_3/seed_ecosystem.py and of                      *)
(* drone_4/seed_ecosystem.py, on the catalog file the seeder has written.  *)
(* The function is cut at its awaits.  A write of the file is one step     *)
(* here.                                                                   *)
(***************************************************************************)
MaxRuns == 2

\* what the variables outside seed_ecosystem and the catalog file are
eco_others ==
    <<main_vars, fusion_vars, compat_vars, physics_vars, save_vars, ref_vars, seed_vars,
      fab_vars>>

\* f"REQ_FOR_{part['model_name']}"
REQ_FOR ==
    ( "F7 Stack" :> "REQ_FOR_F7 Stack" ) @@
    ( "Emax 2207 1700KV" :> "REQ_FOR_Emax 2207 1700KV" ) @@
    ( "Volador 5 inch" :> "REQ_FOR_Volador 5 inch" ) @@
    ( "DJI O3 Air Unit" :> "REQ_FOR_DJI O3 Air Unit" ) @@
    ( "Tattu 1300mAh 6S" :> "REQ_FOR_Tattu 1300mAh 6S" ) @@
    ( "M10 GPS" :> "REQ_FOR_M10 GPS" )

\* the catalog entry save_to_arsenal writes for a product
seeded(part_type, product_name) ==
    new_entry([part_type |-> part_type, product_name |-> product_name, price |-> 24990,
               engineering_specs |-> [weight_g |-> 30]],
              {"Fence Patrol"}, "component")

\* catalog files the seeder leaves behind; the file can also be absent or torn
EcoCatalogs ==
    { [components |-> <<seeded("FC_Stack", "F7 Stack")>>],
      [components |-> <<seeded("FC_Stack", "F7 Stack"),
                        seeded("Motors", "Emax 2207 1700KV")>>],
      [components |-> <<seeded("Frame_Kit", "Volador 5 inch"),
                        seeded("Camera_VTX_Kit", "DJI O3 Air Unit")>>],
      [components |-> <<seeded("Battery", "Tattu 1300mAh 6S")>>] }

\* what the LLM of agent_identify_needs can answer
NeedLists ==
    { <<>>, <<"XT60 Pigtail">>, <<"XT60 Pigtail", "JST-GH Cable">>,
      <<"HQ 5 inch prop", "Amass XT60 Pigtail">> }

\* agent_identify_needs(part): the lists it can return
agent_identify_needs(version, part) ==
    IF version = "drone_3"
    THEN IF part.category \in {"Frame_Kit", "Propellers"} THEN {<<>>} ELSE NeedLists
    ELSE IF Get(part, "category", "") \in
              {"Motors", "Propellers", "Frame_Kit", "FC_Stack", "Companion_Computer",
               "Camera_VTX_Kit", "Lidar_Module", "Video_System", "GPS_Module"}
         THEN NeedLists ELSE {<<>>}

\* the outer loop passes over the part
eco_skips(version, part) ==
    IF version = "drone_3"
    THEN part.category \notin {"FC_Stack", "Companion_Computer", "Camera_VTX_Kit",
                               "Lidar_Module"}
    ELSE ~Get(part, "verified", FALSE) /\ Has(Lower(Spell[part.model_name]), "generic")

\* is_present: the query is part of a name the tool already has
is_present(query, names) ==
    \E existing \in names : Contains(existing, Lower(Spell[query]))

\* the part_type of the fusion call
target_category(version, query) ==
    IF version = "drone_3" THEN "Interconnect"
    ELSE IF Has(Lower(Spell[query]), "prop") THEN "Propellers"
    ELSE IF Has(Lower(Spell[query]), "motor") THEN "Motors"
    ELSE IF Has(Lower(Spell[query]), "battery") \/ Has(Lower(Spell[query]), "lipo")
         THEN "Battery"
    ELSE "Interconnect"

\* the product names the search can turn up for a query
EcoProducts ==
    ( "XT60 Pigtail" :> {"XT60 Pigtail", "Amass XT60 Pigtail"} ) @@
    ( "Amass XT60 Pigtail" :> {"XT60 Pigtail"} ) @@
    ( "JST-GH Cable" :> {"JST-GH Cable"} ) @@
    ( "HQ 5 inch prop" :> {"HQ 5 inch prop"} )

\* the result of fuse_component_data with the tags of seed_ecosystem
eco_result(part_type, product_name, part) ==
    [part_type |-> part_type, product_name |-> product_name, price |-> 4990,
     engineering_specs |-> [weight_g |-> 5],
     tags |-> {"ECOSYSTEM_AUTOFILL", REQ_FOR[part.model_name]}]

\* the results of the hunt for a query: None or a tagged composite part
EcoFinds(version, query, part) ==
    {NoneV} \cup {eco_result(target_category(version, query), product_name, part) :
                     product_name \in EcoProducts[query]}

\* the names of the inventory, lower-cased; KeyError without a model_name
names_of(inventory) ==
    IF \E i \in 1..Len(inventory) : "model_name" \notin DOMAIN inventory[i] THEN Raised
    ELSE [val |-> {Lower(Spell[inventory[i].model_name]) : i \in 1..Len(inventory)}]

EcoInit ==
    /\ main_off /\ fusion_at("off") /\ compat_at("off") /\ physics_at("off")
    /\ save_at("off")
    /\ arsenal_file \in EcoCatalogs \cup {NoneV, Torn}
    /\ eco_version \in {"drone_3", "drone_4"}
    /\ eco_at("start")
    /\ ref_off
    /\ seed_at("off")
    /\ fab_at("off")

\* seed_ecosystem up to its loop: the file is read, the names collected
EcoStart ==
    /\ eco_pc = "start"
    /\ eco_runs' = eco_runs + 1
    /\ IF IsNone(arsenal_file)
       THEN /\ eco_pc' = "done"
            /\ UNCHANGED <<current_inventory, existing_names, eco_parts>>
       ELSE IF arsenal_file = Torn \/ IsRaised(names_of(arsenal_file.components))
       THEN /\ eco_pc' = "raised"
            /\ UNCHANGED <<current_inventory, existing_names, eco_parts>>
       ELSE /\ current_inventory' = arsenal_file.components
            /\ existing_names' = names_of(arsenal_file.components).val
            /\ eco_parts' = arsenal_file.components
            /\ eco_pc' = "parts"
    /\ needed_items' = <<>>
    /\ new_finds' = <<>>
    /\ UNCHANGED <<eco_version, arsenal_file, eco_others>>

\* the head of the outer loop, and agent_identify_needs for a part
EcoPart ==
    /\ eco_pc = "parts"
    /\ IF eco_parts = <<>>
       THEN /\ eco_pc' = IF eco_version = "drone_3" THEN "save" ELSE "done"
            /\ UNCHANGED <<eco_parts, needed_items>>
       ELSE IF eco_skips(eco_version, Head(eco_parts))
       THEN /\ eco_parts' = Tail(eco_parts)
            /\ UNCHANGED <<eco_pc, needed_items>>
       ELSE /\ needed_items' \in agent_identify_needs(eco_version, Head(eco_parts))
            /\ eco_pc' = "needs"
            /\ UNCHANGED eco_parts
    /\ UNCHANGED <<eco_version, eco_runs, current_inventory, existing_names, new_finds,
                   arsenal_file, eco_others>>

\* the head of the inner loop: an accessory the tool has is passed over, for
\* the others the fusion call begins
EcoNeed ==
    /\ eco_pc = "needs"
    /\ IF needed_items = <<>>
       THEN /\ eco_parts' = Tail(eco_parts)
            /\ eco_pc' = "parts"
            /\ UNCHANGED needed_items
       ELSE IF is_present(Head(needed_items), existing_names)
       THEN /\ needed_items' = Tail(needed_items)
            /\ UNCHANGED <<eco_pc, eco_parts>>
       ELSE /\ eco_pc' = "hunting"
            /\ UNCHANGED <<eco_parts, needed_items>>
    /\ UNCHANGED <<eco_version, eco_runs, current_inventory, existing_names, new_finds,
                   arsenal_file, eco_others>>

\* the fusion call returns: drone_3 keeps a find in new_finds, drone_4 appends
\* it to the inventory and writes the file
EcoHunt ==
    /\ eco_pc = "hunting"
    /\ \E result \in EcoFinds(eco_version, Head(needed_items), Head(eco_parts)) :
          IF IsNone(result)
          THEN UNCHANGED <<current_inventory, existing_names, new_finds, arsenal_file>>
          ELSE /\ existing_names' =
                     existing_names \cup {Lower(Spell[result.product_name])}
               /\ IF eco_version = "drone_3"
                  THEN /\ new_finds' = Append(new_finds, result)
                       /\ UNCHANGED <<current_inventory, arsenal_file>>
                  ELSE /\ current_inventory' = Append(current_inventory, result)
                       /\ arsenal_file' =
                              [arsenal_file EXCEPT !.components = current_inventory']
                       /\ UNCHANGED new_finds
    /\ needed_items' = Tail(needed_items)
    /\ eco_pc' = "needs"
    /\ UNCHANGED <<eco_version, eco_runs, eco_parts, eco_others>>

\* 4. Save Updates of drone_3: the finds are written after the loop
EcoSave ==
    /\ eco_pc = "save"
    /\ IF new_finds # <<>>
       THEN /\ current_inventory' = current_inventory \o new_finds
            /\ arsenal_file' = [arsenal_file EXCEPT !.components = current_inventory']
       ELSE UNCHANGED <<current_inventory, arsenal_file>>
    /\ eco_pc' = "done"
    /\ UNCHANGED <<eco_version, eco_runs, eco_parts, needed_items, existing_names,
                   new_finds, eco_others>>

\* the tool is run again
EcoRerun ==
    /\ eco_pc = "done"
    /\ eco_runs < MaxRuns
    /\ eco_pc' = "start"
    /\ UNCHANGED <<eco_version, eco_runs, current_inventory, eco_parts, needed_items,
                   existing_names, new_finds, arsenal_file, eco_others>>

EcoNext ==
    \/ EcoStart
    \/ EcoPart
    \/ EcoNeed
    \/ EcoHunt
    \/ EcoSave
    \/ EcoRerun

EcoSpec == EcoInit /\ [][EcoNext]_vars

(***************************************************************************)
(* Two writers of one catalog file: the seeder (save_to_arsenal) and       *)
(* seed_ecosystem, started as two processes.  Their steps interleave.      *)
(***************************************************************************)
MaxSaves == 1

WritersInit ==
    /\ main_off /\ fusion_at("off") /\ compat_at("off") /\ physics_at("off")
    /\ save_at("idle")
    /\ arsenal_file \in EcoCatalogs
    /\ eco_version \in {"drone_3", "drone_4"}
    /\ eco_at("start")
    /\ ref_off
    /\ seed_at("off")
    /\ fab_at("off")

WritersNext ==
    \/ (Cardinality(saved) < MaxSaves /\ SaveToArsenal)
    \/ OpenForWrite
    \/ Dump
    \/ EcoStart
    \/ EcoPart
    \/ EcoNeed
    \/ EcoHunt
    \/ EcoSave
    \/ EcoRerun

WritersSpec == WritersInit /\ [][WritersNext]_vars

(***************************************************************************)
(* run_refinery of drone_3/refine_arsenal.py and of                        *)
(* drone_4/refine_arsenal.py, cut at its awaits.  The audit and the        *)
(* investigation are calls of an LLM: their answers are open.              *)
(***************************************************************************)
\* what the variables outside run_refinery and the catalog file are
ref_others ==
    <<main_vars, fusion_vars, compat_vars, physics_vars, save_vars, eco_vars, seed_vars,
      fab_vars>>

\* the found_data of an investigation
FoundData == { [weight_g |-> 28], [mounting_mm |-> 16] }

\* the component after the update: the found data go over its specs
refined(version, comp, found_data) ==
    [c \in {"specs", "verified"} |->
        IF c = "verified" THEN TRUE
        ELSE IF version = "drone_3"
        THEN [source |-> "active_refinery_agent"] @@ found_data @@ Get(comp, "specs", <<>>)
        ELSE found_data @@ Get(comp, "specs", <<>>)]
    @@ comp

\* the components without those at the positions to remove
RECURSIVE culled(_, _, _)
culled(components, remove, i) ==
    IF i > Len(components) THEN <<>>
    ELSE (IF i \in remove THEN <<>> ELSE <<components[i]>>)
         \o culled(components, remove, i + 1)

RefineryInit ==
    /\ main_off /\ fusion_at("off") /\ compat_at("off") /\ physics_at("off")
    /\ save_at("off")
    /\ arsenal_file \in EcoCatalogs \cup {NoneV, Torn}
    /\ eco_off
    /\ ref_version \in {"drone_3", "drone_4"}
    /\ ref_at("start")
    /\ seed_at("off")
    /\ fab_at("off")

\* run_refinery up to its loop: the file is read
RefineryStart ==
    /\ ref_pc = "start"
    /\ IF IsNone(arsenal_file)
       THEN ref_pc' = "done" /\ UNCHANGED ref_data
       ELSE IF arsenal_file = Torn
       THEN ref_pc' = "raised" /\ UNCHANGED ref_data
       ELSE ref_pc' = "audit" /\ ref_data' = arsenal_file.components
    /\ UNCHANGED <<ref_version, ref_i, components_to_remove, arsenal_file, ref_others>>

\* one round of the loop: the audit passes
AuditPass ==
    /\ ref_pc = "audit"
    /\ ref_i <= Len(ref_data)
    /\ ref_i' = ref_i + 1
    /\ UNCHANGED <<ref_version, ref_pc, ref_data, components_to_remove, arsenal_file,
                   ref_others>>

\* one round of the loop: the audit fails and the investigation finds data;
\* the component is updated and the file written
AuditFix ==
    /\ ref_pc = "audit"
    /\ ref_i <= Len(ref_data)
    /\ IF ref_version = "drone_4" /\ "model_name" \notin DOMAIN ref_data[ref_i]
       THEN /\ ref_pc' = "raised"
            /\ UNCHANGED <<ref_data, ref_i, arsenal_file>>
       ELSE /\ \E found_data \in FoundData :
                  ref_data' = [ref_data EXCEPT
                                  ![ref_i] = refined(ref_version, @, found_data)]
            /\ arsenal_file' = [arsenal_file EXCEPT !.components = ref_data']
            /\ ref_i' = ref_i + 1
            /\ UNCHANGED ref_pc
    /\ UNCHANGED <<ref_version, components_to_remove, ref_others>>

\* one round of the loop: the audit fails and nothing is found; drone_4 marks
\* the component for removal
AuditCull ==
    /\ ref_pc = "audit"
    /\ ref_i <= Len(ref_data)
    /\ IF ref_version = "drone_4" /\ "model_name" \notin DOMAIN ref_data[ref_i]
       THEN /\ ref_pc' = "raised"
            /\ UNCHANGED <<ref_i, components_to_remove>>
       ELSE /\ components_to_remove' =
                  IF ref_version = "drone_4" THEN components_to_remove \cup {ref_i}
                  ELSE components_to_remove
            /\ ref_i' = ref_i + 1
            /\ UNCHANGED ref_pc
    /\ UNCHANGED <<ref_version, ref_data, arsenal_file, ref_others>>

\* after the loop: drone_4 removes the marked components and writes the file
RefineryEnd ==
    /\ ref_pc = "audit"
    /\ ref_i > Len(ref_data)
    /\ IF components_to_remove # {}
       THEN /\ ref_data' = culled(ref_data, components_to_remove, 1)
            /\ arsenal_file' = [arsenal_file EXCEPT !.components = ref_data']
       ELSE UNCHANGED <<ref_data, arsenal_file>>
    /\ ref_pc' = "done"
    /\ UNCHANGED <<ref_version, ref_i, components_to_remove, ref_others>>

RefineryNext ==
    \/ RefineryStart
    \/ AuditPass
    \/ AuditFix
    \/ AuditCull
    \/ RefineryEnd

RefinerySpec == RefineryInit /\ [][RefineryNext]_vars

(***************************************************************************)
(* run_seeder and its audit log (src/drone_3/seed.py).  The missions and   *)
(* the queries come from language-model agents and are inputs; each query  *)
(* of the Fusion Search Loop is passed to fuse_component_data, which       *)
(* answers None, a part that has specs and a price, or raises.  The        *)
(* timestamp of a log entry is left out.                                   *)
(***************************************************************************)
MaxQueries == 2
MaxCrashes == 1

\* what the seeder leaves alone
seed_others ==
    <<main_vars, fusion_vars, compat_vars, physics_vars, store_pc, db, new_item, tags,
      eco_vars, ref_vars, fab_vars>>

\* load_json(AUDIT_LOG_FILE): a missing or unreadable log reads as no events
load_audit(file) ==
    IF IsNone(file) \/ file = Torn THEN [events |-> <<>>] ELSE file

\* the items of a query_list
SeedQueries ==
    { [part_type |-> "Motors", model_name |-> "Emax 2207 1700KV"],
      [part_type |-> "Battery", model_name |-> "Tattu 1300mAh 6S"] }

QueryLists == {q \in ListsUpTo(SeedQueries, MaxQueries) : Len(q) > 0}

\* what fuse_component_data can return for a query
SeedResults(item) == {NoneV} \cup {r \in StoreItems : r.part_type = item.part_type}

\* the VALIDATION LOGIC test of run_seeder
is_verified(result) ==
    /\ ~IsNone(result)
    /\ result.engineering_specs # <<>>
    /\ result.price # 0

\* the reason of a rejection
reject_reason(result) ==
    IF IsNone(result) THEN "No Search Results"
    ELSE IF result.engineering_specs = <<>> THEN "Low Confidence Specs"
    ELSE IF result.price = 0 THEN "No Price Found"
    ELSE "Unknown"

\* the event run_seeder logs for a query and its result
verification_event(item, result) ==
    IF is_verified(result)
    THEN [type |-> "VERIFICATION_SUCCESS",
          data |-> [model |-> item.model_name,
                    specs_found |-> result.engineering_specs]]
    ELSE [type |-> "VERIFICATION_REJECTED",
          data |-> [model |-> item.model_name, reason |-> reject_reason(result)]]

\* log_audit_event up to the append: the log as read, with the entry added
log_with(file, entry) == [events |-> Append(load_audit(file).events, entry)]

\* the catalog files a seeder run can find: none, or the one an ecosystem
\* run of drone_4 left behind
SeedCatalogs ==
    { NoneV,
      [components |-> <<seeded("FC_Stack", "F7 Stack")>>],
      [components |-> <<seeded("FC_Stack", "F7 Stack"),
                        eco_result("Interconnect", "XT60 Pigtail",
                                   seeded("FC_Stack", "F7 Stack"))>>] }

SeederInit ==
    /\ main_off
    /\ fusion_at("off")
    /\ compat_at("off")
    /\ physics_at("off")
    /\ save_at("off")
    /\ eco_off
    /\ ref_off
    /\ fab_at("off")
    /\ arsenal_file \in SeedCatalogs
    /\ seed_pc = "next"
    /\ query_list \in QueryLists
    /\ seed_result = NoneV
    /\ audit_file = NoneV
    /\ log_db = NoneV
    /\ logged = <<>>
    /\ passed = <<>>
    /\ crashes = 0

\* the head of the Fusion Search Loop: the query goes to fuse_component_data
SeederQuery ==
    /\ seed_pc = "next"
    /\ query_list # <<>>
    /\ seed_pc' = "fusing"
    /\ UNCHANGED <<query_list, seed_result, audit_file, log_db, logged, passed, crashes,
                   arsenal_file, saved, seed_others>>

\* fuse_component_data returns, or raises and ends run_seeder
FusionAnswer ==
    /\ seed_pc = "fusing"
    /\ \E result \in SeedResults(Head(query_list)) \cup {Raised} :
          /\ passed' = Append(passed, result)
          /\ IF IsRaised(result)
             THEN /\ seed_pc' = "raised"
                  /\ UNCHANGED seed_result
             ELSE /\ seed_pc' = "verify"
                  /\ seed_result' = result
    /\ UNCHANGED <<query_list, audit_file, log_db, logged, crashes, arsenal_file, saved,
                   seed_others>>

\* the VALIDATION LOGIC: a verified result is saved by save_to_arsenal, which
\* can raise; then log_audit_event reads the log and appends the entry
Verify ==
    /\ seed_pc = "verify"
    /\ \E item_tags \in TagChoices :
          IF is_verified(seed_result)
             /\ check_raises(load_json(arsenal_file).components, seed_result.product_name)
          THEN /\ seed_pc' = "raised"
               /\ UNCHANGED <<arsenal_file, saved, log_db>>
          ELSE /\ seed_pc' = "log_open"
               /\ log_db' = log_with(audit_file,
                                     verification_event(Head(query_list), seed_result))
               /\ IF is_verified(seed_result)
                  THEN /\ arsenal_file' =
                              db_to_write(load_json(arsenal_file), seed_result,
                                          all_tags(seed_result, item_tags),
                                          item_type_of(Head(query_list).part_type))
                       /\ saved' = saved \cup {seed_result.product_name}
                  ELSE UNCHANGED <<arsenal_file, saved>>
    /\ UNCHANGED <<query_list, seed_result, audit_file, logged, passed, crashes,
                   seed_others>>

\* open(AUDIT_LOG_FILE, "w"): the log is truncated
LogOpen ==
    /\ seed_pc = "log_open"
    /\ audit_file' = Torn
    /\ seed_pc' = "log_dump"
    /\ UNCHANGED <<query_list, seed_result, log_db, logged, passed, crashes, arsenal_file,
                   saved, seed_others>>

\* json.dump(log_db, f): log_audit_event returns and the loop goes on
LogDump ==
    /\ seed_pc = "log_dump"
    /\ audit_file' = log_db
    /\ logged' = Append(logged, log_db.events[Len(log_db.events)])
    /\ query_list' = Tail(query_list)
    /\ seed_pc' = "next"
    /\ UNCHANGED <<seed_result, log_db, passed, crashes, arsenal_file, saved, seed_others>>

\* the loop is over
SeederEnd ==
    /\ seed_pc = "next"
    /\ query_list = <<>>
    /\ seed_pc' = "done"
    /\ UNCHANGED <<query_list, seed_result, audit_file, log_db, logged, passed, crashes,
                   arsenal_file, saved, seed_others>>

\* the process dies: what is in memory is gone, the files stay as they are
SeederCrash ==
    /\ seed_pc \in {"fusing", "verify", "log_open", "log_dump"}
    /\ crashes < MaxCrashes
    /\ crashes' = crashes + 1
    /\ seed_pc' = "crashed"
    /\ query_list' = <<>>
    /\ seed_result' = NoneV
    /\ log_db' = NoneV
    /\ UNCHANGED <<audit_file, logged, passed, arsenal_file, saved, seed_others>>

\* run_seeder is started again, with the queries the agents give it then
SeederRestart ==
    /\ seed_pc \in {"crashed", "done"}
    /\ crashes > 0
    /\ Len(logged) < MaxQueries + 1
    /\ query_list' \in {q \in QueryLists : Len(q) = 1}
    /\ seed_pc' = "next"
    /\ UNCHANGED <<seed_result, audit_file, log_db, logged, passed, crashes, arsenal_file,
                   saved, seed_others>>

SeederNext ==
    \/ SeederQuery
    \/ FusionAnswer
    \/ Verify
    \/ LogOpen
    \/ LogDump
    \/ SeederEnd
    \/ SeederCrash
    \/ SeederRestart

SeederSpec == SeederInit /\ [][SeederNext]_vars

(***************************************************************************)
(* fabricate_products (src/drone_3/fabricate_catalog.py): the BUILD LOOP   *)
(* of one size class.  The parts of a bucket are numbered from 1; the      *)
(* gates (compatibility, blueprint, physics) and the name the marketing    *)
(* model gives are inputs.  A SKU keeps its sku_id, its marketing name and *)
(* its frame.                                                              *)
(***************************************************************************)
MaxFabRuns == 2
MaxSkuCounter == 4

\* what fabricate_products leaves alone
fab_others ==
    <<main_vars, fusion_vars, compat_vars, physics_vars, store_vars, eco_vars, ref_vars,
      seed_vars>>

\* load_catalog: a missing or unreadable catalog reads as the empty list
load_catalog(file) == IF IsNone(file) \/ file = Torn THEN <<>> ELSE file.skus

\* f"OF-{sku_counter:06d}": the prefix and the six digits
sku_id_of(n) ==
    <<"OF-">> \o [i \in 1..6 |-> (n \div (10 ^ (6 - i))) % 10]

\* the size classes a run can find: at least one frame, motor, prop and
\* battery (line 213), any number of stacks
Buckets ==
    [Frame_Kit : 1..2, Motors : {1}, Propellers : 1..2, FC_Stack : 0..2, Battery : 1..2]

\* a slice [:2]
first_two(n) == IF n > 2 THEN 2 ELSE n

\* the loops are over
LoopEnd == [done |-> TRUE]

\* for frame in frames: the next frame, whose prop loop breaks at once when
\* there is no stack
next_frame(b, pos) ==
    IF pos.frame < b.Frame_Kit /\ b.FC_Stack > 0
    THEN [frame |-> pos.frame + 1, motor |-> 1, prop |-> 1, stack |-> 1, bat |-> 1]
    ELSE LoopEnd

\* for motor in motors[:2]
next_motor(b, pos) ==
    IF pos.motor < first_two(b.Motors)
    THEN [pos EXCEPT !.motor = @ + 1, !.prop = 1, !.stack = 1, !.bat = 1]
    ELSE next_frame(b, pos)

\* for prop in props[:2], left by  else: continue  (line 331)
next_prop(b, pos) ==
    IF pos.prop < first_two(b.Propellers)
    THEN [pos EXCEPT !.prop = @ + 1, !.stack = 1, !.bat = 1]
    ELSE next_motor(b, pos)

\* for stack in stacks[:2], left by  else: continue  (line 329): the loop
\* has no break, so the break of line 330 is never reached
next_stack(b, pos) ==
    IF pos.stack < first_two(b.FC_Stack)
    THEN [pos EXCEPT !.stack = @ + 1, !.bat = 1]
    ELSE next_prop(b, pos)

\* for bat in batteries[:2], after a  continue  of a gate
next_bat(b, pos) ==
    IF pos.bat < first_two(b.Battery)
    THEN [pos EXCEPT !.bat = @ + 1]
    ELSE next_stack(b, pos)

\* the first combination of the BUILD LOOP
first_pos(b) ==
    IF b.FC_Stack > 0
    THEN [frame |-> 1, motor |-> 1, prop |-> 1, stack |-> 1, bat |-> 1]
    ELSE LoopEnd

\* what the marketing model answers: a name (a text of one piece), or None
MarketingAnswers ==
    {[model_name |-> <<"Titan X7 Long Range">>], [model_name |-> <<"Falcon Scout">>], NoneV}

\* marketing, with the fallback f"OpenForge-{sku_counter}" of line 297
marketing_of(answer, counter) ==
    IF IsNone(answer) THEN [model_name |-> <<"OpenForge-", counter>>] ELSE answer

\* sku_record, lines 299-324
sku_record(counter, marketing, frame) ==
    [sku_id |-> sku_id_of(counter), marketing |-> marketing, frame |-> frame]

\* save_sku_to_catalog: the catalog as it is written, or as it was when the
\* name is a duplicate
save_sku_to_catalog(file, sku) ==
    IF \E i \in 1..Len(load_catalog(file)) :
           load_catalog(file)[i].marketing.model_name = sku.marketing.model_name
    THEN file
    ELSE [skus |-> Append(load_catalog(file), sku)]

FabInit ==
    /\ main_off
    /\ fusion_at("off")
    /\ compat_at("off")
    /\ physics_at("off")
    /\ store_at("off")
    /\ eco_off
    /\ ref_off
    /\ seed_at("off")
    /\ fab_pc = "start"
    /\ catalog_file = NoneV
    /\ sku_counter = 0
    /\ buckets \in Buckets
    /\ fab_pos = NoneV
    /\ fab_passed = {}
    /\ fab_saved = <<>>
    /\ fab_runs = 0

\* lines 153-219: the inventory is read and sku_counter is set
FabStart ==
    /\ fab_pc = "start"
    /\ sku_counter' = Len(load_catalog(catalog_file)) + 1
    /\ fab_pos' = first_pos(buckets)
    /\ fab_pc' = "build"
    /\ UNCHANGED <<catalog_file, buckets, fab_passed, fab_saved, fab_runs, fab_others>>

\* lines 230-280: a combination is evaluated and a gate rejects it
Reject ==
    /\ fab_pc = "build"
    /\ fab_pos # LoopEnd
    /\ fab_pos' = next_bat(buckets, fab_pos)
    /\ UNCHANGED <<fab_pc, catalog_file, sku_counter, buckets, fab_passed, fab_saved,
                   fab_runs, fab_others>>

\* lines 230-328: a combination is evaluated, the design is validated, named
\* and passed to save_sku_to_catalog, and the battery loop is left
Validate ==
    /\ fab_pc = "build"
    /\ fab_pos # LoopEnd
    /\ sku_counter <= MaxSkuCounter
    /\ \E answer \in MarketingAnswers :
          /\ catalog_file' =
                 save_sku_to_catalog(catalog_file,
                     sku_record(sku_counter, marketing_of(answer, sku_counter),
                                fab_pos.frame))
          /\ fab_saved' = IF catalog_file' = catalog_file
                          THEN fab_saved
                          ELSE Append(fab_saved, fab_pos.frame)
    /\ fab_passed' = fab_passed \cup {fab_pos.frame}
    /\ sku_counter' = sku_counter + 1
    /\ fab_pos' = next_stack(buckets, fab_pos)
    /\ UNCHANGED <<fab_pc, buckets, fab_runs, fab_others>>

\* the loops are over
FabEnd ==
    /\ fab_pc = "build"
    /\ fab_pos = LoopEnd
    /\ fab_pc' = "done"
    /\ UNCHANGED <<catalog_file, sku_counter, buckets, fab_pos, fab_passed, fab_saved,
                   fab_runs, fab_others>>

\* fabricate_products is run again, on the inventory of that time
FabRerun ==
    /\ fab_pc = "done"
    /\ fab_runs + 1 < MaxFabRuns
    /\ fab_runs' = fab_runs + 1
    /\ buckets' \in Buckets
    /\ fab_pc' = "start"
    /\ fab_pos' = NoneV
    /\ fab_passed' = {}
    /\ fab_saved' = <<>>
    /\ UNCHANGED <<catalog_file, sku_counter, fab_others>>

FabNext ==
    \/ FabStart
    \/ Reject
    \/ Validate
    \/ FabEnd
    \/ FabRerun

FabSpec == FabInit /\ [][FabNext]_vars

(***************************************************************************)
(* One CompatibilityService, called again and again: validate_build as a   *)
(* process, with its lists errors and warnings.                            *)
(***************************************************************************)
\* most calls of validate_build on the one service
MaxCalls == 2

\* the fixed table of safe KV ranges per cell count, set in __init__
VOLTAGE_MAP ==
    ( 6 :> [min_kv |-> 1100, max_kv |-> 2150] ) @@
    ( 4 :> [min_kv |-> 2100, max_kv |-> 2900] )

battery_with(specs) ==
    [part_type |-> "Battery", product_name |-> "Tattu 1300mAh 6S",
     engineering_specs |-> specs]

motor_with(specs) ==
    [part_type |-> "Motors", product_name |-> "Emax 2207 1700KV",
     engineering_specs |-> specs]

\* no battery, batteries of 6 and 4 cells, written as the number or as "6S", a
\* battery known by its voltage only, one with a cell count that is no number,
\* one whose engineering_specs is null
BatteryChoices ==
    { <<>>,
      <<battery_with("cell_count_s" :> [int |-> 6])>>,
      <<battery_with("cell_count_s" :> [str |-> "6S"])>>,
      <<battery_with("cell_count_s" :> [int |-> 4])>>,
      <<battery_with("voltage_v" :> [float |-> 22200])>>,
      <<battery_with("cell_count_s" :> [str |-> "HV"])>>,
      <<battery_with(NoneV)>> }

\* no motor, motors below, inside and above the ranges of VOLTAGE_MAP, the KV
\* written as a number or as "2500KV", one with a KV that is no number
MotorChoices ==
    { <<>>,
      <<motor_with("kv_rating" :> [int |-> 1000])>>,
      <<motor_with("kv_rating" :> [int |-> 1700])>>,
      <<motor_with("kv_rating" :> [int |-> 2050])>>,
      <<motor_with("kv" :> [str |-> "2500KV"])>>,
      <<motor_with("kv_rating" :> [int |-> 3500])>>,
      <<motor_with("kv_rating" :> [str |-> "N/A"])>> }

\* the other parts of a BOM: none; a flight controller with one UART, a digital
\* video system and a GPS; a 5 inch frame with 7 inch propellers; the same with
\* the frame's engineering_specs null; a flight controller whose
\* engineering_specs is null; a part without part_type
OtherParts ==
    { <<>>,
      << [part_type |-> "FC_Stack", product_name |-> "F7 Stack",
          engineering_specs |-> ("uart_count" :> [int |-> 1])],
         [part_type |-> "Camera_VTX_Kit", product_name |-> "DJI O3 Air Unit",
          engineering_specs |-> ("width_mm" :> [int |-> 20])],
         [part_type |-> "GPS_Module", product_name |-> "M10 GPS",
          engineering_specs |-> <<>>] >>,
      << [part_type |-> "Frame_Kit", product_name |-> "Volador 5 inch",
          engineering_specs |-> ("wheelbase_mm" :> [int |-> 225])],
         [part_type |-> "Propellers", product_name |-> "HQ 7 inch prop",
          engineering_specs |-> ("diameter_mm" :> [int |-> 178])] >>,
      << [part_type |-> "Frame_Kit", product_name |-> "Volador 5 inch",
          engineering_specs |-> NoneV],
         [part_type |-> "Propellers", product_name |-> "HQ 7 inch prop",
          engineering_specs |-> ("diameter_mm" :> [int |-> 178])] >>,
      << [part_type |-> "FC_Stack", product_name |-> "F7 Stack",
          engineering_specs |-> NoneV] >>,
      << [product_name |-> "M10 GPS", engineering_specs |-> <<>>] >> }

\* the BOMs validate_build is called with
CompatBoms ==
    { b \o m \o o : b \in BatteryChoices, m \in MotorChoices, o \in OtherParts }
    \cup { m \o b : b \in BatteryChoices, m \in MotorChoices }

CompatInit ==
    main_off /\ fusion_at("off") /\ compat_at("idle") /\ physics_at("off") /\ store_at("off") /\ tools_off

\* a call that goes on with the lists as the call before left them
ValidateCall_keep_lists ==
    /\ compat_pc = "idle"
    /\ Len(reports) < MaxCalls
    /\ \E bom \in CompatBoms :
        /\ compat_bom' = bom
        /\ IF key_error(bom)
           THEN /\ reports' = Append(reports, Raised)
                /\ compat_pc' = "idle"
           ELSE /\ compat_pc' = "check_a"
                /\ UNCHANGED reports
    /\ UNCHANGED <<compat_errors, compat_warnings>>
    /\ UNCHANGED <<main_vars, fusion_vars, physics_vars, store_vars, tool_vars>>

\* validate_build(bom) is called: errors = [], warnings = [], and the parts by
\* type, which raises KeyError for a part without part_type
ValidateCall ==
    /\ compat_pc = "idle"
    /\ Len(reports) < MaxCalls
    /\ \E bom \in CompatBoms :
        /\ compat_bom' = bom
        /\ IF key_error(bom)
           THEN /\ reports' = Append(reports, Raised)
                /\ compat_pc' = "idle"
           ELSE /\ compat_pc' = "check_a"
                /\ UNCHANGED reports
    /\ compat_errors' = <<>>
    /\ compat_warnings' = <<>>
    /\ UNCHANGED <<main_vars, fusion_vars, physics_vars, store_vars, tool_vars>>

\* CHECK A appends its error or warning
CheckA ==
    /\ compat_pc = "check_a"
    /\ LET a == check_voltage(parts_by_type(compat_bom))
       IN  /\ compat_errors' = compat_errors \o a.errors
           /\ compat_warnings' = compat_warnings \o a.warnings
    /\ compat_pc' = "check_b"
    /\ UNCHANGED <<compat_bom, reports, main_vars, fusion_vars, physics_vars, store_vars, tool_vars>>

\* CHECK B appends its error, or raises TypeError
CheckB ==
    /\ compat_pc = "check_b"
    /\ LET parts == parts_by_type(compat_bom)
           b == check_io(compat_bom, parts)
       IN  IF io_raises(parts)
           THEN /\ reports' = Append(reports, Raised)
                /\ compat_pc' = "idle"
                /\ UNCHANGED <<compat_errors, compat_warnings>>
           ELSE /\ compat_errors' = compat_errors \o b.errors
                /\ compat_warnings' = compat_warnings \o b.warnings
                /\ compat_pc' = "check_c"
                /\ UNCHANGED reports
    /\ UNCHANGED <<compat_bom, main_vars, fusion_vars, physics_vars, store_vars, tool_vars>>

\* CHECK C appends its error
CheckC ==
    /\ compat_pc = "check_c"
    /\ LET c == check_clearance(parts_by_type(compat_bom))
       IN  /\ compat_errors' = compat_errors \o c.errors
           /\ compat_warnings' = compat_warnings \o c.warnings
    /\ compat_pc' = "return"
    /\ UNCHANGED <<compat_bom, reports, main_vars, fusion_vars, physics_vars, store_vars, tool_vars>>

\* return {"valid": len(errors) == 0, "errors": errors, "warnings": warnings}
ValidateReturn ==
    /\ compat_pc = "return"
    /\ reports' = Append(reports, [valid |-> Len(compat_errors) = 0,
                                   errors |-> compat_errors,
                                   warnings |-> compat_warnings])
    /\ compat_pc' = "idle"
    /\ UNCHANGED <<compat_bom, compat_errors, compat_warnings, main_vars, fusion_vars, physics_vars, store_vars, tool_vars>>

CompatNext ==
    \/ ValidateCall
    \/ CheckA
    \/ CheckB
    \/ CheckC
    \/ ValidateReturn

CompatSpec == CompatInit /\ [][CompatNext]_vars

(***************************************************************************)
(* main() of prof_grade_test.py.                                           *)
(***************************************************************************)
MAX_REVISIONS == 3

\* twr >= 1.5, the ratio in hundredths
TWR_PASS == 150

Init ==
    /\ pc = "intake"
    /\ spec_sheet = NoneV
    /\ current_shopping_list = <<>>
    /\ idx = 0
    /\ new_part_data = NoneV
    /\ current_bom = <<>>
    /\ revision_count = 0
    /\ physics_report = NoneV
    /\ optimization_plan = NoneV
    /\ master_record = [project_id |-> "master_rev_test", created_at |-> 0,
                        status |-> "initializing", revisions |-> <<>>]
    /\ cad_specs = <<>>
    /\ assets = NoneV
    /\ now = 1
    /\ fusion_at("off")
    /\ compat_at("off")
    /\ physics_at("off")
    /\ store_at("off") /\ tools_off

\* PHASE 1: the spec sheet; without one main() returns
Intake ==
    /\ pc = "intake"
    /\ \E sheet \in SpecSheets :
        /\ spec_sheet' = sheet
        /\ IF Falsy(sheet)
           THEN /\ pc' = "returned"
                /\ UNCHANGED current_shopping_list
           ELSE /\ pc' = "loop"
                /\ current_shopping_list' = Get(sheet, "buy_list", <<>>)
    /\ UNCHANGED <<idx, current_bom, revision_count, physics_report,
                   optimization_plan, master_record, cad_specs, assets, now>>
    /\ UNCHANGED <<new_part_data, service_vars>>

\* while revision_count < MAX_REVISIONS: revision_count += 1
LoopHead ==
    /\ pc = "loop"
    /\ IF revision_count < MAX_REVISIONS
       THEN /\ revision_count' = revision_count + 1
            /\ idx' = 1
            /\ pc' = "sourcing"
       ELSE /\ pc' = "final"
            /\ UNCHANGED <<revision_count, idx>>
    /\ UNCHANGED <<spec_sheet, current_shopping_list, current_bom, physics_report,
                   optimization_plan, master_record, cad_specs, assets, now>>
    /\ UNCHANGED <<new_part_data, service_vars>>

\* replace_part that starts the BOM afresh with the new part
replace_part_rebuild(bom, part_type, new_part) == <<new_part>>

\* replace_part that appends without removing the old part
replace_part_keep_old(bom, part_type, new_part) == Append(bom, new_part)

\* replace_part that puts the new part first
replace_part_front(bom, part_type, new_part) ==
    LET other(p) == p.part_type # part_type
    IN  <<new_part>> \o SelectSeq(bom, other)

\* the BOM after a part of part_type has been sourced: the old part of that type
\* removed, the new part appended
replace_part(bom, part_type, new_part) ==
    LET other(p) == p.part_type # part_type
    IN  Append(SelectSeq(bom, other), new_part)

\* merge_part that drops the old part when nothing was sourced
merge_part_drop_old(bom, part_type, sourced) ==
    IF IsNone(sourced)
    THEN LET other(p) == p.part_type # part_type IN SelectSeq(bom, other)
    ELSE replace_part(bom, part_type, sourced)

\* if new_part_data: replace the part of part_type;  else: the BOM stays as it is
merge_part(bom, part_type, sourced) ==
    IF IsNone(sourced) THEN bom ELSE replace_part(bom, part_type, sourced)

\* 1. Sourcing: one pass of  for target_item in current_shopping_list
SourceItem ==
    /\ pc = "sourcing"
    /\ idx <= Len(current_shopping_list)
    /\ LET target_item == current_shopping_list[idx]
       IN  IF "part_type" \notin DOMAIN target_item
           THEN \* KeyError
                /\ pc' = "crashed"
                /\ UNCHANGED <<idx, new_part_data, current_bom>>
           ELSE \E sourced \in fuse_component_data(target_item.part_type) :
                /\ new_part_data' = sourced
                /\ current_bom' = merge_part(current_bom, target_item.part_type, sourced)
                /\ idx' = idx + 1
                /\ pc' = "sourcing"
    /\ UNCHANGED <<spec_sheet, current_shopping_list, revision_count, physics_report,
                   optimization_plan, master_record, cad_specs, assets, now>>
    /\ UNCHANGED service_vars

\* the status written to the revision record
revision_status(twr) == IF twr >= TWR_PASS THEN "pass" ELSE "fail"

\* append_revision that records only the revisions that pass
append_revision_pass_only(record, new_record) ==
    IF new_record.status = "pass"
    THEN [record EXCEPT !.revisions = Append(@, new_record)]
    ELSE record

\* append_revision that keeps only the latest revision
append_revision_latest_only(record, new_record) ==
    [record EXCEPT !.revisions = <<new_record>>]

\* master_record["revisions"].append(rev_record)
append_revision(record, new_record) ==
    [record EXCEPT !.revisions = Append(@, new_record)]

\* a Decision Gate that does not break on a pass
decision_gate_no_break(twr, count) ==
    IF count = MAX_REVISIONS THEN "final" ELSE "optimize"

\* 3. Decision Gate: where main() goes after the revision has been recorded
decision_gate(twr, count) ==
    IF twr >= TWR_PASS THEN "final"
    ELSE IF count = MAX_REVISIONS THEN "final"
    ELSE "optimize"

\* rev_record that leaves the BOM out of the snapshot
rev_record_no_bom(count, timestamp, bom, report) ==
    [revision_id |-> count,
     timestamp |-> timestamp,
     bom_snapshot |-> <<>>,
     physics_snapshot |-> report,
     status |-> revision_status(Get(report, "twr", 0))]

\* Save Revision State: the record of one revision
rev_record(count, timestamp, bom, report) ==
    [revision_id |-> count,
     timestamp |-> timestamp,
     bom_snapshot |-> bom,
     physics_snapshot |-> report,
     status |-> revision_status(Get(report, "twr", 0))]

\* 2. Physics Validation, Save Revision State, 3. Decision Gate
PhysicsCheck ==
    /\ pc = "sourcing"
    /\ idx > Len(current_shopping_list)
    /\ \E report \in run_physics_simulation(current_bom) :
        /\ physics_report' = report
        /\ master_record' =
              append_revision(master_record,
                              rev_record(revision_count, now, current_bom, report))
        /\ pc' = decision_gate(Get(report, "twr", 0), revision_count)
    /\ now' = now + 1
    /\ UNCHANGED <<spec_sheet, current_shopping_list, idx, current_bom, revision_count,
                   optimization_plan, cad_specs, assets>>
    /\ UNCHANGED <<new_part_data, service_vars>>

\* after_optimize that goes on to the next revision with an empty list
after_optimize_continue(plan) ==
    IF Falsy(plan) THEN "final"
    ELSE LET replacements == Get(plan, "replacements", <<>>)
         IN  IF \E i \in 1..Len(replacements) :
                    "part_type" \notin DOMAIN replacements[i]
             THEN "crashed"
             ELSE "loop"

\* where main() goes with the plan of the optimization agent: out of the loop
\* when there is no plan or no replacement, into the next revision otherwise
after_optimize(plan) ==
    IF Falsy(plan) THEN "final"
    ELSE LET replacements == Get(plan, "replacements", <<>>)
         IN  IF replacements = <<>> THEN "final"
             ELSE IF \E i \in 1..Len(replacements) :
                        "part_type" \notin DOMAIN replacements[i]
             THEN "crashed"   \* KeyError in the print of the new shopping list
             ELSE "loop"

\* 4. AI Optimization: the plan, and the shopping list of the next revision
Optimize ==
    /\ pc = "optimize"
    /\ \E plan \in OptimizationPlans :
        /\ optimization_plan' = plan
        /\ current_shopping_list' =
              IF Falsy(plan) THEN current_shopping_list
              ELSE Get(plan, "replacements", <<>>)
        /\ pc' = after_optimize(plan)
    /\ UNCHANGED <<spec_sheet, idx, current_bom, revision_count, physics_report,
                   master_record, cad_specs, assets, now>>
    /\ UNCHANGED <<new_part_data, service_vars>>

RECURSIVE extract_cad_specs(_, _)
\* Extract CAD Specs from final BOM: for p in current_bom
extract_cad_specs(specs_so_far, bom) ==
    IF bom = <<>> THEN specs_so_far
    ELSE LET p     == Head(bom)
             specs == Get(p, "engineering_specs", <<>>)
             s1 == IF Truthy(Get(specs, "mounting_mm", NoneV))
                   THEN ("motor_mounting_mm" :> specs["mounting_mm"]) @@ specs_so_far
                   ELSE specs_so_far
             s2 == IF Truthy(Get(specs, "diameter_mm", NoneV))
                   THEN ("prop_diameter_mm" :> specs["diameter_mm"]) @@ s1
                   ELSE s1
             s3 == IF Truthy(Get(specs, "width_mm", NoneV))
                   THEN ("camera_width_mm" :> specs["width_mm"]) @@ s2
                   ELSE s2
             s4 == IF p.part_type = "FC_Stack" /\ ~Truthy(Get(s3, "fc_mounting_mm", NoneV))
                   THEN ("fc_mounting_mm" :> [float |-> 30500]) @@ s3
                   ELSE s3
         IN  extract_cad_specs(s4, Tail(bom))

\* find_part_in_bom: the first part whose part type contains the query, or None
find_part_in_bom(bom, part_type_query) ==
    LET hits == {i \in 1..Len(bom) :
                    Has(Lower(Spell[Get(bom[i], "part_type", "")]), part_type_query)}
    IN  IF hits = {} THEN NoneV
        ELSE bom[CHOOSE i \in hits : \A j \in hits : i <= j]

\* get_spec of generate_assets: the value of the part's spec, or the default
\* when the part or the spec is missing
asset_spec(part, key, default) ==
    LET val == IF IsNone(part) THEN NoneV
               ELSE Get(Get(part, "engineering_specs", <<>>), key, NoneV)
    IN  IF IsNone(val) THEN default ELSE val

\* generate_assets: the specs calculated from the BOM, and the report of the
\* mesh collision check, whose verdict is the mesh library's
generate_assets(bom, collided) ==
    [calculated_specs |->
        \* float(get_spec(...)), in thousandths of a millimetre
        [wheelbase |-> float_of(asset_spec(find_part_in_bom(bom, "frame"),
                                           "wheelbase_mm", [float |-> 225000])).val,
         prop_diameter_mm |-> float_of(asset_spec(find_part_in_bom(bom, "propeller"),
                                                  "diameter_mm", [float |-> 127000])).val,
         fc_mounting_mm |-> float_of(asset_spec(find_part_in_bom(bom, "fc"),
                                                "mounting_mm", [float |-> 30500])).val],
     collision_report |-> [collided |-> collided]]

\* master_record["final_build"]
final_build(bom, cad_assets) == [bom |-> bom, cad_assets |-> cad_assets]

\* POST-LOOP: generation from the final state of current_bom, and the final
\* master record
Finalize ==
    /\ pc = "final"
    /\ cad_specs' = extract_cad_specs(<<>>, current_bom)
    /\ \E collided \in BOOLEAN :
        /\ assets' = generate_assets(current_bom, collided)
        /\ master_record' =
              [ (("final_build" :> final_build(current_bom, assets')) @@ master_record)
                EXCEPT !["status"] = "complete" ]
    /\ pc' = "done"
    /\ UNCHANGED <<spec_sheet, current_shopping_list, idx, current_bom, revision_count,
                   physics_report, optimization_plan, now>>
    /\ UNCHANGED <<new_part_data, service_vars>>

Next ==
    \/ Intake
    \/ LoopHead
    \/ SourceItem
    \/ PhysicsCheck
    \/ Optimize
    \/ Finalize

Spec == Init /\ [][Next]_vars

(***************************************************************************)
(* Properties of the revision loop.                                        *)
(***************************************************************************)
Revisions == master_record.revisions

LastRevision == Revisions[Len(Revisions)]

\* the part types named in a shopping list
ListedTypes(list) ==
    {list[i].part_type : i \in {j \in 1..Len(list) : "part_type" \in DOMAIN list[j]}}

\* the parts of type t in a BOM, in their order
PartsOfType(bom, t) ==
    LET same(p) == p.part_type = t
    IN  SelectSeq(bom, same)

Range(seq) == {seq[i] : i \in 1..Len(seq)}

\* main() has left the loop on one of its three exits
LoopLeft == pc \in {"final", "done"}

\* the records of the session match the iterations of the loop: during the sourcing
\* of iteration k there are k - 1 records, from its physics check on there are k,
\* numbered 1..k, and k <= MAX_REVISIONS
RecordsMatchIterations ==
    /\ revision_count <= MAX_REVISIONS
    /\ pc = "sourcing" => Len(Revisions) = revision_count - 1
    /\ pc # "sourcing" => Len(Revisions) = revision_count
    /\ \A i \in 1..Len(Revisions) : Revisions[i].revision_id = i

\* a measure of what main() has still to do: an iteration weighs more than the
\* steps of any one iteration (no shopping list of the model is longer than
\* MaxReplacements + 4), an item to source more than what follows the sourcing
StepsLeft ==
    LET weight == MaxReplacements + 8
        later  == (MAX_REVISIONS - revision_count) * weight
    IN  CASE pc = "intake"   -> (MAX_REVISIONS + 1) * weight
          [] pc = "sourcing" -> later + 4 + (Len(current_shopping_list) + 1 - idx)
          [] pc = "optimize" -> later + 3
          [] pc = "loop"     -> later + 2
          [] pc = "final"    -> 1
          [] OTHER           -> 0

C2_PassIffAllGates ==
    /\ \A i \in 1..Len(Revisions) :
          Revisions[i].status = "pass" =>
             /\ Get(Revisions[i].physics_snapshot, "twr", 0) >= TWR_PASS
             /\ validate_build(Revisions[i].bom_snapshot).valid
    /\ pc = "done" =>
          (LastRevision.status = "pass" <=>
             /\ Get(LastRevision.physics_snapshot, "twr", 0) >= TWR_PASS
             /\ validate_build(LastRevision.bom_snapshot).valid
             /\ ~assets.collision_report.collided)

\* C3: the design frozen as final is never one whose collision check reports
\* collided = true.
C3_NoCollidingFinal ==
    pc = "done" => ~master_record.final_build.cad_assets.collision_report.collided

\* C4: a step changes only the parts of the types named in the current shopping
\* list: the parts of every other type are the same after the step as before.
C4_DeltaUpdate ==
    [][\A t \in PartTypes \ ListedTypes(current_shopping_list) :
          PartsOfType(current_bom', t) = PartsOfType(current_bom, t)]_vars

\* in a later revision a part has been replaced while a part of a type that is
\* not in the shopping list is in the BOM
C4_Witness ==
    /\ revision_count = 2
    /\ pc = "sourcing"
    /\ idx > Len(current_shopping_list)
    /\ current_bom # Revisions[1].bom_snapshot
    /\ \E i \in 1..Len(current_bom) :
          current_bom[i].part_type \notin ListedTypes(current_shopping_list)

\* C5: the BOM, and every recorded snapshot of it, holds at most one part per
\* part type.
C5_OnePartPerType ==
    LET one_per_type(bom) ==
            \A i, j \in 1..Len(bom) : bom[i].part_type = bom[j].part_type => i = j
    IN  /\ one_per_type(current_bom)
        /\ \A k \in 1..Len(Revisions) : one_per_type(Revisions[k].bom_snapshot)

\* a shopping list that names a type twice has been sourced, and the BOM holds a
\* part of that type which is not the one of the first revision
C5_Witness ==
    /\ revision_count = 2
    /\ pc = "sourcing"
    /\ idx > Len(current_shopping_list)
    /\ \E i, j \in 1..Len(current_shopping_list) :
          /\ i # j
          /\ current_shopping_list[i].part_type = current_shopping_list[j].part_type
          /\ \E p \in Range(current_bom) :
                /\ p.part_type = current_shopping_list[i].part_type
                /\ p \notin Range(Revisions[1].bom_snapshot)
                /\ PartsOfType(Revisions[1].bom_snapshot, p.part_type) # <<>>

\* a sourcing step for type t that ends with the part of type t the BOM held
\* before it
SameSourcedAgain(t) ==
    /\ pc = "sourcing"
    /\ idx <= Len(current_shopping_list)
    /\ idx' = idx + 1
    /\ current_shopping_list[idx].part_type = t
    /\ PartsOfType(current_bom, t) # <<>>
    /\ PartsOfType(current_bom', t) = PartsOfType(current_bom, t)

\* C6 as stated: sourcing a type again with the same part leaves the BOM, an
\* ordered collection, unchanged.
C6_IdempotentOrdered ==
    [][\A t \in PartTypes : SameSourcedAgain(t) => current_bom' = current_bom]_vars

\* C6 as amended: sourcing a type again with the same part leaves the parts of
\* the BOM and their number unchanged and keeps the order of the other parts;
\* when the list changes at all, the part sourced again has moved to its end.
C6_IdempotentUpToOrder ==
    [][\A t \in PartTypes : SameSourcedAgain(t) =>
          /\ Range(current_bom') = Range(current_bom)
          /\ Len(current_bom') = Len(current_bom)
          /\ \A u \in PartTypes \ {t} :
                PartsOfType(current_bom', u) = PartsOfType(current_bom, u)
          /\ current_bom' # current_bom =>
                current_bom'[Len(current_bom')].part_type = t]_vars

\* the one sourcing step of the second revision has sourced the same part again:
\* the BOM holds the parts of the first revision in another order
C6_Witness ==
    /\ revision_count = 2
    /\ pc = "sourcing"
    /\ Len(current_shopping_list) = 1
    /\ idx = 2
    /\ Range(current_bom) = Range(Revisions[1].bom_snapshot)
    /\ current_bom # Revisions[1].bom_snapshot

\* C7: the session is append-only: a step never removes, reorders or changes a
\* record that has been appended.
C7_AppendOnly ==
    [][/\ Len(Revisions') >= Len(Revisions)
       /\ \A i \in 1..Len(Revisions) : Revisions'[i] = Revisions[i]]_vars

\* two revisions are recorded and the BOM has changed since the first
C7_Witness ==
    /\ Len(Revisions) >= 2
    /\ Revisions[1].bom_snapshot # current_bom
    /\ Revisions[1].bom_snapshot # <<>>
    /\ Revisions[1].revision_id = 1

\* the plan has no replacement to offer
NoReplacements(plan) == Falsy(plan) \/ Get(plan, "replacements", <<>>) = <<>>

\* C8: when the advisor, asked after a failed revision with revisions left,
\* returns no plan or a plan without replacements, the loop is left at once;
\* once the loop is left no sourcing step runs and no record is appended.
C8_AdvisorExhausted ==
    [][/\ (pc = "optimize" /\ NoReplacements(optimization_plan')) => pc' = "final"
       /\ LoopLeft => /\ pc' \in {"final", "done"}
                      /\ Revisions' = Revisions
                      /\ current_bom' = current_bom
                      /\ revision_count' = revision_count]_vars

\* the run ended after one failed revision because the plan had an empty list
C8_Witness ==
    /\ pc = "done"
    /\ Len(Revisions) = 1
    /\ LastRevision.status = "fail"
    /\ ~Falsy(optimization_plan)
    /\ Get(optimization_plan, "replacements", <<>>) = <<>>

\* C9: the final build carries the BOM of the last revision, and the physics
\* report handed on with it is the physics snapshot of the last revision.
C9_FinalIsLastRevision ==
    pc = "done" =>
        /\ Len(Revisions) >= 1
        /\ master_record.final_build.bom = LastRevision.bom_snapshot
        /\ physics_report = LastRevision.physics_snapshot

\* a run that ended on a failed second revision whose BOM differs from the first
C9_Witness ==
    /\ pc = "done"
    /\ Len(Revisions) = 2
    /\ LastRevision.status = "fail"
    /\ LastRevision.bom_snapshot # Revisions[1].bom_snapshot
    /\ LastRevision.bom_snapshot # <<>>

\* C10: a run never ends but in the frozen state, with a recorded session that
\* carries an explicit pass or fail status.
C10_AlwaysFrozen ==
    pc \in {"returned", "crashed", "done"} =>
        /\ pc = "done"
        /\ "final_build" \in DOMAIN master_record
        /\ Len(Revisions) >= 1
        /\ LastRevision.status \in {"pass", "fail"}

\* a sourcing step of main() for type t in which fuse_component_data returned None
SourcingEmpty(t) ==
    /\ pc = "sourcing"
    /\ idx <= Len(current_shopping_list)
    /\ idx' = idx + 1
    /\ current_shopping_list[idx].part_type = t
    /\ IsNone(new_part_data')

\* C11: when sourcing a type of the shopping list yields no candidate, the BOM
\* keeps the part of that type it had, and holds none of that type if it had none;
\* nothing else in the BOM changes either.
C11_KeepPriorOnEmpty ==
    [][\A t \in PartTypes : SourcingEmpty(t) =>
          /\ PartsOfType(current_bom', t) = PartsOfType(current_bom, t)
          /\ current_bom' = current_bom]_vars

\* in the second revision a replacement was sourced without result and the part
\* of the first revision is still in the BOM
C11_Witness ==
    /\ revision_count = 2
    /\ pc = "sourcing"
    /\ idx = 2
    /\ IsNone(new_part_data)
    /\ PartsOfType(current_bom, current_shopping_list[1].part_type) # <<>>
    /\ current_bom = Revisions[1].bom_snapshot

(***************************************************************************)
(* Properties of fuse_component_data.                                      *)
(***************************************************************************)
\* the critical keys of a part type: of each set of names, one must be there
CriticalKeys ==
    ( "Motors" :> {{"kv_rating", "kv"}, {"mounting_mm", "stator_size"}} ) @@
    ( "Frame_Kit" :> {{"wheelbase_mm"}} ) @@
    ( "FC_Stack" :> {{"mounting_mm", "mounting_pattern_mm"}, {"mcu", "mcu_type"}} ) @@
    ( "Battery" :> {{"cell_count_s", "voltage_v"}, {"capacity_mah"}} ) @@
    ( "ESC" :> {{"continuous_current_a", "current_a"}} ) @@
    ( "Propellers" :> {{"diameter_inch", "diameter_mm"}} ) @@
    ( "Camera_VTX_Kit" :> {} )

LacksCriticalKey(part_type, specs) ==
    \E names \in CriticalKeys[part_type] : names \cap DOMAIN specs = {}

\* the specs of search result i after extraction and text inference
SpecsOfResult(i) ==
    engineering_specs_of(results[i], fuse_part_type, fuse_prompt, MIN_CONFIDENCE)

\* task i has finished with a candidate
Survives(i) ==
    /\ candidates[i] # Pending
    /\ ~IsNone(candidates[i])
    /\ ~IsRaised(candidates[i])

Survivors == {i \in 1..Len(candidates) : Survives(i)}

Returned == fuse_pc = "returned" /\ ~IsNone(fuse_result)

\* C12: a search result whose specs, after extraction and text inference, lack
\* a critical key of the part type is not among the candidates that are ranked
\* and is not the part returned; no ranked candidate and no returned part lacks
\* a critical key.
C12_NoCandidateLacksCriticalKey ==
    /\ \A i \in 1..Len(candidates) :
          LacksCriticalKey(fuse_part_type, SpecsOfResult(i)) =>
              /\ ~Survives(i)
              /\ Returned => fuse_result.source_url # Get(results[i], "link", "")
    /\ \A i \in Survivors :
          ~LacksCriticalKey(fuse_part_type, candidates[i].engineering_data)
    /\ Returned => ~LacksCriticalKey(fuse_part_type, fuse_result.engineering_specs)

\* a part was returned although the first search result, with a price, a spec
\* table and images, lacked a critical key
C12_Witness ==
    /\ Returned
    /\ Len(results) >= 2
    /\ LacksCriticalKey(fuse_part_type, SpecsOfResult(1))
    /\ results[1].page = GoodPage
    /\ candidates[1] = NoneV
    /\ fuse_result.source_url # results[1].link

\* the first survivor, in the order of the search results, with the highest score
FirstBest ==
    CHOOSE i \in Survivors :
        \A j \in Survivors :
            \/ rank_candidate(candidates[j]) < rank_candidate(candidates[i])
            \/ rank_candidate(candidates[j]) = rank_candidate(candidates[i]) /\ i <= j

\* C13: the part returned is the survivor with the highest score, and among
\* several of them the first in the order of the search results, in whatever
\* order the tasks finished; None is returned only when there is no survivor.
C13_MaxScoreFirstSeen ==
    (fuse_pc = "returned" /\ candidates # <<>>) =>
        IF Survivors = {} THEN IsNone(fuse_result)
        ELSE /\ ~IsNone(fuse_result)
             /\ fuse_result.source_url = candidates[FirstBest].source_url
             /\ fuse_result.engineering_specs = candidates[FirstBest].engineering_data
             /\ fuse_result.alternatives_checked = Cardinality(Survivors)

\* two survivors have the highest score, the later one finished first, and the
\* earlier one was returned
C13_Witness ==
    /\ Returned
    /\ \E i, j \in Survivors :
        /\ i < j
        /\ rank_candidate(candidates[i]) = rank_candidate(candidates[j])
        /\ \A k \in Survivors :
              rank_candidate(candidates[k]) <= rank_candidate(candidates[i])
        /\ \E m, n \in 1..Len(finished) : m < n /\ finished[m] = j /\ finished[n] = i
        /\ fuse_result.source_url = candidates[i].source_url

\* processing search result i has failed: the page could not be opened or read
TaskFailed(i) ==
    /\ candidates[i] # Pending
    /\ IsRaised(results[i].page) \/ IsNone(results[i].page)
    /\ IsNone(candidates[i]) \/ IsRaised(candidates[i])

\* C14: a failure while processing one candidate does not abort the batch: the
\* call goes on to gather and rank the other candidates.
C14_FailureDoesNotAbort ==
    \A i \in 1..Len(candidates) : TaskFailed(i) => fuse_pc \in {"tasks", "returned"}

(***************************************************************************)
(* Properties of validate_build.                                           *)
(***************************************************************************)
\* the number a cell count or a KV is written as; 0 when it is no number
MeantNumber(v) ==
    IF "int" \in DOMAIN v THEN v.int
    ELSE IF v = [str |-> "6S"] THEN 6
    ELSE IF v = [str |-> "2500KV"] THEN 2500
    ELSE 0

\* the specs of the part of the given type, <<>> without such a part or specs
SpecsIn(bom, t) ==
    LET found == {i \in 1..Len(bom) : Get(bom[i], "part_type", "") = t}
    IN  IF found = {} THEN <<>>
        ELSE LET part == bom[CHOOSE i \in found : \A j \in found : j <= i]
             IN  IF specs_broken(part) THEN <<>> ELSE part.engineering_specs

BomCells(bom) == MeantNumber(Get(SpecsIn(bom, "Battery"), "cell_count_s", NoneV))

BomKv(bom) ==
    LET specs == SpecsIn(bom, "Motors")
    IN  IF "kv_rating" \in DOMAIN specs THEN MeantNumber(specs["kv_rating"])
        ELSE MeantNumber(Get(specs, "kv", NoneV))

\* the BOM is a battery and a motor and nothing else
BatteryAndMotorOnly(bom) ==
    /\ Len(bom) = 2
    /\ {Get(bom[1], "part_type", ""), Get(bom[2], "part_type", "")}
           = {"Battery", "Motors"}

\* the last call has come back
Reported == compat_pc = "idle" /\ reports # <<>>

LastReport == reports[Len(reports)]

HasKind(list, kind) == \E i \in 1..Len(list) : list[i].kind = kind

\* C15: for a BOM of a 6S battery and a motor, a KV above 2150 is reported with
\* valid = false and a "Voltage Mismatch" error, and a KV from 1100 to 2150 is
\* reported valid.
C15_SixCellVoltage ==
    (Reported /\ BatteryAndMotorOnly(compat_bom) /\ BomCells(compat_bom) = 6) =>
        /\ BomKv(compat_bom) > VOLTAGE_MAP[6].max_kv =>
              /\ ~IsRaised(LastReport)
              /\ LastReport.valid = FALSE
              /\ HasKind(LastReport.errors, "Voltage Mismatch")
        /\ (/\ BomKv(compat_bom) >= VOLTAGE_MAP[6].min_kv
            /\ BomKv(compat_bom) <= VOLTAGE_MAP[6].max_kv) =>
              /\ ~IsRaised(LastReport)
              /\ LastReport.valid = TRUE

\* a 6S battery written "6S" with a motor written "2500KV" was reported invalid
\* after a 6S battery with a 1700KV motor was reported valid
C15_Witness ==
    /\ Reported
    /\ Len(reports) = 2
    /\ reports[1] = [valid |-> TRUE, errors |-> <<>>, warnings |-> <<>>]
    /\ BatteryAndMotorOnly(compat_bom)
    /\ SpecsIn(compat_bom, "Battery") = ("cell_count_s" :> [str |-> "6S"])
    /\ SpecsIn(compat_bom, "Motors") = ("kv" :> [str |-> "2500KV"])
    /\ LastReport.valid = FALSE
    /\ HasKind(LastReport.errors, "Voltage Mismatch")

\* C16: for every cell count of VOLTAGE_MAP, a KV above the range gives an
\* error, a KV below the range gives a warning, a KV inside gives neither.
C16_TableDecides ==
    \A cells \in DOMAIN VOLTAGE_MAP :
        (/\ Reported
         /\ BatteryAndMotorOnly(compat_bom)
         /\ BomCells(compat_bom) = cells
         /\ BomKv(compat_bom) > 0) =>
            /\ ~IsRaised(LastReport)
            /\ LastReport.errors # <<>> <=> BomKv(compat_bom) > VOLTAGE_MAP[cells].max_kv
            /\ LastReport.warnings # <<>> <=> BomKv(compat_bom) < VOLTAGE_MAP[cells].min_kv

\* C17: in every report valid is true exactly when its errors are empty, and
\* the report of a call holds the errors and warnings of the BOM of that call
\* only: each kind once at most, and what the checks give for this BOM alone.
C17_FreshReport ==
    /\ \A i \in 1..Len(reports) :
          ~IsRaised(reports[i]) => (reports[i].valid <=> reports[i].errors = <<>>)
    /\ (Reported /\ ~IsRaised(LastReport)) =>
          /\ \A i, j \in 1..Len(LastReport.errors) :
                LastReport.errors[i].kind = LastReport.errors[j].kind => i = j
          /\ Len(LastReport.warnings) <= 1
          /\ LastReport = validate_build(compat_bom)

\* a BOM was reported valid after a call that reported errors
C17_Witness ==
    /\ Reported
    /\ Len(reports) = 2
    /\ ~IsRaised(reports[1])
    /\ Len(reports[1].errors) >= 2
    /\ LastReport = [valid |-> TRUE, errors |-> <<>>, warnings |-> <<>>]

\* C18: validate_build never raises: every call returns a report.
C18_NeverRaises ==
    \A i \in 1..Len(reports) : ~IsRaised(reports[i])

(***************************************************************************)
(* Properties of generate_physics_config, under PhysicsSpec.               *)
(***************************************************************************)
\* C19: The physics estimator never throws on incomplete data: for any BOM,
\* one without frame, motor, propeller or battery, with an item without a
\* category, or with an item whose specs are missing or null included,
\* generate_physics_config returns a profile.
C19_NeverThrows == phys_pc # "raised"

(***************************************************************************)
(* Properties of the catalog file, under StoreSpec.                        *)
(***************************************************************************)
\* the components a reader of the catalog file gets
Stored == load_json(arsenal_file).components

StoredNames ==
    {Stored[i].model_name : i \in {j \in 1..Len(Stored) : "model_name" \in DOMAIN Stored[j]}}

\* C20: A crash at any point of a session, in the middle of a catalog write
\* included, loses at most the candidate that was being written: between two
\* saves, after a crash or not, every component that was saved before is in
\* the catalog file.
C20_CrashKeepsInventory ==
    store_pc \in {"idle", "crashed"} => saved \subseteq StoredNames

(***************************************************************************)
(* Properties of seed_ecosystem, under EcoSpec.                            *)
(***************************************************************************)
\* the parts seed_ecosystem has found and verified in this run
EcoVerified ==
    {c \in {(current_inventory \o new_finds)[i] :
                i \in 1..Len(current_inventory \o new_finds)} :
        "product_name" \in DOMAIN c}

\* C21: Each newly verified Component is written to the catalog file before
\* the next sourcing step starts: when a fusion call begins, every Component
\* verified earlier in the run is in the catalog file.
C21_SavedBeforeNextSourcing ==
    eco_pc = "hunting" => \A c \in EcoVerified : c \in {Stored[i] : i \in 1..Len(Stored)}

(***************************************************************************)
(* Properties of two writers of the catalog file, under WritersSpec.       *)
(***************************************************************************)
\* C22: Writers of the catalog file are serialized: when a save of the seeder
\* and a run of seed_ecosystem interleave, the catalog they leave holds the
\* appends of both: what the seeder saved and what seed_ecosystem found.
C22_BothAppendsKept ==
    (store_pc = "idle" /\ eco_pc = "done")
        => /\ saved \subseteq StoredNames
           /\ \A c \in EcoVerified : c \in {Stored[i] : i \in 1..Len(Stored)}

(***************************************************************************)
(* Properties of the entries of the catalog file, under EcoSpec.           *)
(***************************************************************************)
\* the key of a catalog entry: its category and its lower-cased name, under
\* the field names of the seeder or of a fusion result
EntryKey(c) ==
    << Get(c, "category", Get(c, "part_type", "")),
       Lower(Spell[Get(c, "model_name", Get(c, "product_name", ""))]) >>

\* C23: The catalog is keyed by category plus normalized product name, with
\* duplicate detection on insert: the catalog file never holds two entries
\* with the same category and the same normalized name.
C23_OneEntryPerKey ==
    \A i, j \in 1..Len(Stored) : i # j => EntryKey(Stored[i]) # EntryKey(Stored[j])

(***************************************************************************)
(* Properties of run_refinery, under RefinerySpec.                         *)
(***************************************************************************)
\* every verified entry of old is an entry of new, with the specs it has
Kept(old, new) ==
    \A i \in 1..Len(old) :
        Get(old[i], "verified", FALSE)
            => \E j \in 1..Len(new) :
                   /\ is_known(new[j], old[i].model_name)
                   /\ Get(new[j], "specs", NoneV) = old[i].specs

\* C24: A Component is immutable once verified: no step changes the specs of
\* a verified entry of the catalog file or removes the entry.
C24_VerifiedImmutable ==
    [][arsenal_file' # Torn => Kept(Stored, Stored')]_vars

\* C29: In every session only the last RevisionRecord can have status pass:
\* every record that is followed by another record has status fail, and no
\* sourcing or optimization step runs after a revision that passed.
C29_OnlyLastCanPass ==
    /\ \A i \in 1..(Len(Revisions) - 1) : Revisions[i].status = "fail"
    /\ (Len(Revisions) > 0 /\ LastRevision.status = "pass") =>
           pc \notin {"sourcing", "optimize", "loop"}

\* a revision passes after one that failed, and the session is complete
C29_Witness ==
    /\ pc = "done"
    /\ Len(Revisions) >= 2
    /\ LastRevision.status = "pass"

\* C30: Every entry of the catalog (arsenal) file has a model_name and a
\* category after any sequence of seeder and ecosystem runs, so that each
\* tool that reads the file can index these fields of every entry.
C30_EntriesHaveNameAndCategory ==
    \A i \in 1..Len(Stored) :
        "model_name" \in DOMAIN Stored[i] /\ "category" \in DOMAIN Stored[i]

(***************************************************************************)
(* Properties of run_seeder and its audit log, under SeederSpec.           *)
(***************************************************************************)
\* C25: The audit log is append-only: after every call of log_audit_event,
\* a call that follows a crashed or partial write of the log file included,
\* the log file holds all the events logged before, unchanged and in order,
\* followed by the new event.
C25_AuditAppendOnly ==
    [][(seed_pc = "log_dump" /\ seed_pc' = "next") =>
           load_audit(audit_file').events = logged']_vars

\* the event the seeder owes to a query that fusion answered with result
owed_event(event, result) ==
    /\ ~IsRaised(result)
    /\ IF is_verified(result)
       THEN /\ event.type = "VERIFICATION_SUCCESS"
            /\ result.product_name \in StoredNames
       ELSE /\ event.type = "VERIFICATION_REJECTED"
            /\ event.data.reason = reject_reason(result)

\* C26: Every query passed to fusion adds exactly one verification event to
\* the log before the next query is processed: between two queries of a run
\* that was not interrupted, and when the run has ended, the log has one
\* event per query passed to fusion, VERIFICATION_SUCCESS when the Component
\* was saved and VERIFICATION_REJECTED with its reason otherwise.
C26_OneEventPerQuery ==
    (crashes = 0 /\ seed_pc \in {"next", "done", "raised"}) =>
        /\ Len(load_audit(audit_file).events) = Len(passed)
        /\ \A i \in 1..Len(passed) : owed_event(load_audit(audit_file).events[i], passed[i])

(***************************************************************************)
(* Properties of fabricate_products, under FabSpec.                        *)
(***************************************************************************)
\* C27: One success per frame is enough: once a design built on a frame was
\* validated and passed to save_sku_to_catalog, no further combination is
\* evaluated for that frame, and at most one SKU is catalogued per frame in
\* a run.
C27_OneSuccessPerFrame ==
    /\ (fab_pc = "build" /\ fab_pos # LoopEnd) => fab_pos.frame \notin fab_passed
    /\ \A i, j \in 1..Len(fab_saved) : fab_saved[i] = fab_saved[j] => i = j

\* C28: Every SKU of the catalog file has a distinct sku_id, after any
\* number of runs and of skipped duplicates.
C28_DistinctSkuIds ==
    \A i, j \in 1..Len(load_catalog(catalog_file)) :
        load_catalog(catalog_file)[i].sku_id = load_catalog(catalog_file)[j].sku_id
            => i = j

====
